---- MODULE Spec2Model ----
(***************************************************************************)
(* gmail-calendar-sync: the booking pipeline as a state machine.           *)
(*                                                                         *)
(* The calendar store is the only persisted state.  Each handler of the    *)
(* program (a processor's process(), the driver's loop body) is one        *)
(* action; the calls it makes on the calendar store are threaded through   *)
(* a context [items, next, calls] so that the order and number of the      *)
(* calls is part of the state.                                             *)
(*                                                                         *)
(* Texts whose content the code inspects (titles, locations, station       *)
(* names, subjects, bodies) are sequences of word tokens; Japanese words   *)
(* are written in ASCII (the token "mishitei" is the seat placeholder).    *)
(* A datetime is [inst, off]: the instant and the UTC offset, in hours.    *)
(***************************************************************************)
EXTENDS Integers, Sequences, FiniteSets, TLC

VARIABLES
    cal,        \* the calendar store: [items |-> Seq(event), next |-> id counter]
    pending,    \* message ids still to be handed to a processor, oldest first
    last,       \* what the last handler did: input, calls, result, store before
    hist,       \* ghost: facts about the run so far
    inbox,      \* the mailbox: messages with their labels
    emails,     \* process_emails: the fetched, sorted list
    pos,        \* process_emails: index of the next message of the list
    results,    \* process_emails: the ProcessingResult list
    trace,      \* process_emails: what was done to which message, in order
    exit_code,  \* main: the process exit status, -1 while main is running
    verdict     \* the answers of the filter and matching functions: {[fn, value]}

vars == <<cal, pending, last, hist, inbox, emails, pos, results, trace, exit_code, verdict>>

----------------------------------------------------------------------------
(* Sequences and texts *)

Min(a, b) == IF a < b THEN a ELSE b

Max(a, b) == IF a > b THEN a ELSE b

Range(s) == {s[i] : i \in 1..Len(s)}

\* Python: needle in hay (substring), on token sequences.
Contains(hay, needle) ==
    \E i \in 0..(Len(hay) - Len(needle)) :
        \A j \in 1..Len(needle) : hay[i + j] = needle[j]

\* Python: len(s) of the strings whose length the code compares.
StrLen(s) ==
    CASE s = "" -> 0
      [] s = "None" -> 4
      [] s = "mishitei" -> 3
      [] s = "14A" -> 3
      [] s = "15C" -> 3
      [] s = "ABC123" -> 6
      [] s = "REF1" -> 4
      [] s = "https://checkin" -> 15
      [] OTHER -> 5

\* Python: str(x) of an optional string (None prints as "None").
PyStr(s) == IF s = "" THEN "None" ELSE s

----------------------------------------------------------------------------
(* Datetimes *)

\* datetime.isoformat(): the local clock reading and the offset.
IsoFormat(t) == <<t.inst + t.off, t.off>>

\* datetime.fromisoformat(): back to the instant.
FromIso(s) == [inst |-> s[1] - s[2], off |-> s[2]]

\* Comparison of two aware datetimes compares instants.
Before(a, b) == a.inst < b.inst

At(h) == [inst |-> h, off |-> 9]

----------------------------------------------------------------------------
(* models/calendar.py: CalendarEvent and the event builders *)

SourceTag == "gmail-calendar-sync"

SeatPlaceholder == "mishitei"

\* Character count of a token text (tokens joined by single spaces).
TextLen(t) ==
    LET RECURSIVE Sum(_)
        Sum(i) == IF i > Len(t) THEN 0 ELSE StrLen(t[i]) + 1 + Sum(i + 1)
    IN  IF t = <<>> THEN 0 ELSE Sum(1) - 1

\* city or name or code, with "Airport" / "kuukou" removed.
AirportDisplayName(ap) ==
    LET raw == IF ap.city # <<>> THEN ap.city
               ELSE IF ap.name # <<>> THEN ap.name ELSE <<ap.code>>
    IN  SelectSeq(raw, LAMBDA w : w \notin {"Airport", "kuukou"})

FlightSummary(seg) ==
    <<"plane">> \o AirportDisplayName(seg.departure_airport) \o <<"->">>
        \o AirportDisplayName(seg.arrival_airport)
        \o <<"(", seg.airline, seg.flight_number, ")">>

\* len("\n".join(description_parts)) of a flight segment's event.
FlightDescription(booking, seg) ==
    (8 + StrLen(seg.airline) + 1 + StrLen(seg.flight_number))
    + 1 + (7 + StrLen(seg.departure_airport.code) + 3 + StrLen(seg.arrival_airport.code))
    + 1 + (11 + StrLen(booking.passenger_name))
    + 1 + (14 + StrLen(PyStr(booking.confirmation_code)))
    + (IF booking.booking_reference # ""
         THEN 1 + 19 + StrLen(booking.booking_reference) ELSE 0)
    + (IF seg.seat_number # "" THEN 1 + 6 + StrLen(seg.seat_number) ELSE 0)
    + (IF booking.checkin_url # "" THEN 1 + 10 + StrLen(booking.checkin_url) ELSE 0)

FlightLocation(seg) ==
    (IF seg.departure_airport.name # <<>>
       THEN seg.departure_airport.name ELSE <<seg.departure_airport.code>>)
    \o (IF seg.departure_airport.city # <<>>
          THEN <<",">> \o seg.departure_airport.city ELSE <<>>)

FlightSegmentEvent(booking, seg, source_email_id) ==
    [summary |-> FlightSummary(seg),
     description |-> FlightDescription(booking, seg),
     start_time |-> seg.departure_time,
     end_time |-> seg.arrival_time,
     location |-> FlightLocation(seg),
     source_email_id |-> source_email_id,
     confirmation_code |-> booking.confirmation_code,
     booking_reference |-> booking.booking_reference,
     seat_number |-> seg.seat_number]

\* Variant: return segments first.
create_flight_events_return_first(booking, source_email_id) ==
    [i \in 1..Len(booking.return_segments) |->
        FlightSegmentEvent(booking, booking.return_segments[i], source_email_id)]
    \o
    [i \in 1..Len(booking.outbound_segments) |->
        FlightSegmentEvent(booking, booking.outbound_segments[i], source_email_id)]

\* create_flight_events: outbound segments first, then return segments.
create_flight_events(booking, source_email_id) ==
    [i \in 1..Len(booking.outbound_segments) |->
        FlightSegmentEvent(booking, booking.outbound_segments[i], source_email_id)]
    \o
    [i \in 1..Len(booking.return_segments) |->
        FlightSegmentEvent(booking, booking.return_segments[i], source_email_id)]

ProviderDisplayName(provider) ==
    IF provider = "mitsui_carshares" THEN <<"MitsuiCarshares">>
    ELSE IF provider = "times_car" THEN <<"Times", "Car">>
    ELSE <<provider>>

StatusEmoji(status) ==
    CASE status = "reserved" -> "car"
      [] status = "changed" -> "arrows"
      [] status = "cancelled" -> "cross"
      [] status = "completed" -> "check"
      [] OTHER -> "car"

CarShareSummary(b) ==
    <<StatusEmoji(b.status)>> \o b.station.station_name
    \o (IF b.car_type # <<>> THEN <<"(">> \o b.car_type \o <<")">> ELSE <<>>)

\* duration_hours
DurationHours(b) == b.end_time.inst - b.start_time.inst

\* len("\n".join(description_parts)) of a car-share event.
CarShareDescription(b) ==
    (6 + TextLen(ProviderDisplayName(b.provider)))
    + 1 + (8 + TextLen(b.station.station_name))
    + 1 + (5 + StrLen(b.user_name))
    + 1 + (6 + 3 + 2)
    + 1 + (7 + StrLen(b.status))
    + (IF b.station.station_address # <<>>
         THEN 1 + 4 + TextLen(b.station.station_address) ELSE 0)
    + (IF b.car_type # <<>> THEN 1 + 4 + TextLen(b.car_type) ELSE 0)
    + (IF b.booking_reference # "" THEN 1 + 6 + StrLen(b.booking_reference) ELSE 0)
    + (IF b.confirmation_code # "" THEN 1 + 6 + StrLen(b.confirmation_code) ELSE 0)

CarShareLocation(b) ==
    b.station.station_name
    \o (IF b.station.station_address # <<>>
          THEN <<",">> \o b.station.station_address ELSE <<>>)

\* create_carshare_events: exactly one event.
create_carshare_events(b, source_email_id) ==
    << [summary |-> CarShareSummary(b),
        description |-> CarShareDescription(b),
        start_time |-> b.start_time,
        end_time |-> b.end_time,
        location |-> CarShareLocation(b),
        source_email_id |-> source_email_id,
        confirmation_code |-> b.confirmation_code,
        booking_reference |-> b.booking_reference,
        seat_number |-> ""] >>

\* private_props: source and source_email_id always, the other keys only for
\* a non-empty value.
PrivateProps(ev) ==
    LET optional == {key \in {"confirmation_code", "booking_reference", "seat_number"} :
                        ev[key] # ""}
    IN  [key \in {"source", "source_email_id"} \cup optional |->
            IF key = "source" THEN SourceTag ELSE ev[key]]

\* props.get(key, ""): the tag's value, "" for a missing key.
Tag(props, key) == IF key \in DOMAIN props THEN props[key] ELSE ""

\* Variant: the stored event carries no booking identity tags.
to_google_calendar_format_untagged(ev, id) ==
    [id |-> id,
     summary |-> ev.summary,
     start |-> IsoFormat(ev.start_time),
     end |-> IsoFormat(ev.end_time),
     description |-> ev.description,
     location |-> ev.location,
     private |-> [key \in DOMAIN PrivateProps(ev)
                          \ {"confirmation_code", "booking_reference"} |->
                     PrivateProps(ev)[key]]]

\* CalendarEvent.to_google_calendar_format, with the id the store gives it.
\* description 0 and location <<>> are the keys left out.
to_google_calendar_format(ev, id) ==
    [id |-> id,
     summary |-> ev.summary,
     start |-> IsoFormat(ev.start_time),
     end |-> IsoFormat(ev.end_time),
     description |-> ev.description,
     location |-> ev.location,
     private |-> PrivateProps(ev)]

----------------------------------------------------------------------------
(* services/calendar_client.py over a context c = [items, next, calls].    *)
(* ok says whether the store accepts the call; a refused call is an        *)
(* HttpError, which the client turns into None / False / [].               *)

Call(op, target, idx, ok) == [op |-> op, target |-> target, idx |-> idx, ok |-> ok]

Logged(c, call) == [c EXCEPT !.calls = Append(@, call)]

ItemIds(items) == {items[i].id : i \in 1..Len(items)}

create_event(c, ev, idx, ok) ==
    IF ok
    THEN [items |-> Append(c.items, to_google_calendar_format(ev, c.next)),
          next |-> c.next + 1,
          calls |-> Append(c.calls, Call("create", c.next, idx, TRUE))]
    ELSE Logged(c, Call("create", 0, idx, FALSE))

\* create_events: one create_event per event, in list order, from index from.
RECURSIVE create_events(_, _, _, _)
create_events(c, events, from, ok) ==
    IF from > Len(events) THEN c
    ELSE create_events(create_event(c, events[from], from, ok), events, from + 1, ok)

\* Variant: the event is replaced by a fresh one under a new id.
update_event_recreate(c, id, ev, idx, ok) ==
    IF ok /\ id \in ItemIds(c.items)
    THEN [items |-> Append(SelectSeq(c.items, LAMBDA e : e.id # id),
                           to_google_calendar_format(ev, c.next)),
          next |-> c.next + 1,
          calls |-> Append(c.calls, Call("update", id, idx, TRUE))]
    ELSE Logged(c, Call("update", id, idx, FALSE))

\* events().update is a full replacement of the event's body under its id.
update_event(c, id, ev, idx, ok) ==
    IF ok /\ id \in ItemIds(c.items)
    THEN [c EXCEPT
            !.items = [i \in 1..Len(c.items) |->
                         IF c.items[i].id = id
                         THEN to_google_calendar_format(ev, id) ELSE c.items[i]],
            !.calls = Append(@, Call("update", id, idx, TRUE))]
    ELSE Logged(c, Call("update", id, idx, FALSE))

\* A missing event (404) counts as deleted.
delete_event(c, id, ok) ==
    IF ok \/ id \notin ItemIds(c.items)
    THEN [c EXCEPT
            !.items = SelectSeq(c.items, LAMBDA e : e.id # id),
            !.calls = Append(@, Call("delete", id, 0, TRUE))]
    ELSE Logged(c, Call("delete", id, 0, FALSE))

find_events_by_confirmation_code(c, code, ok) ==
    IF ok THEN SelectSeq(c.items, LAMBDA e :
                   /\ "confirmation_code" \in DOMAIN e.private
                   /\ e.private.confirmation_code = code)
    ELSE <<>>

find_events_by_booking_reference(c, ref, ok) ==
    IF ok THEN SelectSeq(c.items, LAMBDA e :
                   /\ "booking_reference" \in DOMAIN e.private
                   /\ e.private.booking_reference = ref)
    ELSE <<>>

\* Variant: a seat counts only when it replaces a blank or placeholder seat.
needs_update_blank_seat_only(existing, new) ==
    LET existing_seat == Tag(existing.private, "seat_number")
        new_seat == Tag(PrivateProps(new), "seat_number")
    IN  \/ /\ existing_seat \in {"", SeatPlaceholder}
           /\ new_seat # "" /\ new_seat # SeatPlaceholder
        \/ existing.start # IsoFormat(new.start_time)
        \/ existing.end # IsoFormat(new.end_time)
        \/ new.description > existing.description

needs_update(existing, new) ==
    LET existing_seat == Tag(existing.private, "seat_number")
        new_seat == Tag(PrivateProps(new), "seat_number")
    IN  \/ existing_seat # new_seat /\ new_seat # "" /\ new_seat # SeatPlaceholder
        \/ existing.start # IsoFormat(new.start_time)
        \/ existing.end # IsoFormat(new.end_time)
        \/ new.description > existing.description

----------------------------------------------------------------------------
(* utils/email_filter.py.  A regular expression of the filter is a         *)
(* sequence of chunks joined by ".*"; a chunk is a set of alternative      *)
(* token runs.  "NL" is the newline token, which "." does not match.       *)

RunAt(text, p, run) ==
    /\ p + Len(run) - 1 <= Len(text)
    /\ \A j \in 1..Len(run) : text[p + j - 1] = run[j]

NoNewline(text, from, to) == \A i \in from..to : text[i] # "NL"

\* chunks k.. of the pattern match somewhere at or after position start,
\* with no newline between the previous chunk and this one.
RECURSIVE MatchFrom(_, _, _, _)
MatchFrom(pattern, k, text, start) ==
    IF k > Len(pattern) THEN TRUE
    ELSE \E run \in pattern[k] :
            \E p \in start..Len(text) :
                /\ RunAt(text, p, run)
                /\ (k = 1 \/ NoNewline(text, start, p - 1))
                /\ MatchFrom(pattern, k + 1, text, p + Len(run))

\* pattern.search(text)
Search(pattern, text) == MatchFrom(pattern, 1, text, 1)

\* re.compile("^.*" + pattern + ".*$").search(text): the match starts on the
\* first line, and nothing but one final newline may follow the line.
RECURSIVE AnchoredFrom(_, _, _, _)
AnchoredFrom(pattern, k, text, start) ==
    IF k > Len(pattern)
    THEN \A i \in start..Len(text) : text[i] = "NL" => i = Len(text)
    ELSE \E run \in pattern[k] :
            \E p \in start..Len(text) :
                /\ RunAt(text, p, run)
                /\ NoNewline(text, start, p - 1)
                /\ AnchoredFrom(pattern, k + 1, text, p + Len(run))

SearchAnchored(pattern, text) == AnchoredFrom(pattern, 1, text, 1)

\* campaign, present, lottery, discount, sale, ... (35 patterns)
promotional_subject_patterns ==
    << <<{<<"campaign">>}>>,
       <<{<<"present">>}>>,
       <<{<<"chusen">>}>>,
       <<{<<"waribiki">>}>>,
       <<{<<"sale">>}>>,
       <<{<<"tokuten">>}>>,
       <<{<<"otoku">>}>>,
       <<{<<"gentei">>}>>,
       <<{<<"oubo">>}>>,
       <<{<<"mile">>}, {<<"campaign">>}>>,
       <<{<<"point">>}, {<<"campaign">>}>>,
       <<{<<"merumaga">>}>>,
       <<{<<"newsletter">>}>>,
       <<{<<"oshirase">>}>>,
       <<{<<"shinchaku">>}>>,
       <<{<<"jouhou", "haishin">>}>>,
       <<{<<"ANA">>}, {<<"campaign">>}>>,
       <<{<<"ANA">>}, {<<"present">>}>>,
       <<{<<"ANA">>}, {<<"mile">>}>>,
       <<{<<"ANA", "karano", "oshirase">>}>>,
       <<{<<"JAL">>}, {<<"campaign">>}>>,
       <<{<<"JAL">>}, {<<"present">>}>>,
       <<{<<"JAL">>}, {<<"mile">>}>>,
       <<{<<"JAL", "karano", "oshirase">>}>>,
       <<{<<"timescar">>}, {<<"campaign">>}>>,
       <<{<<"careco">>}, {<<"campaign">>}>>,
       <<{<<"mitsuino", "carshare", "zu">>}, {<<"campaign">>}>>,
       <<{<<"carshare">>}, {<<"otoku">>}>>,
       <<{<<"imasugu">>}>>,
       <<{<<"isoide">>}>>,
       <<{<<"minogashi">>}>>,
       <<{<<"saigono", "chance">>}>>,
       <<{<<"kikan", "gentei">>}>>,
       <<{<<"muryou">>}>>,
       <<{<<"premium">>}>> >>

\* unsubscribe, click here, campaign information, ... (10 patterns)
promotional_body_patterns ==
    << <<{<<"click", "shite">>}, {<<"campaign">>}>>,
       <<{<<"kuwashikuwa", "kochira">>}, {<<"campaign">>}>>,
       <<{<<"oubo">>}, {<<"kochira">>}>>,
       <<{<<"haishin", "teishi">>}>>,
       <<{<<"mail", "haishin">>}, {<<"teishi">>}>>,
       <<{<<"koudoku", "kaijo">>}>>,
       <<{<<"campaign">>}, {<<"jouhou">>}>>,
       <<{<<"kuwashikuwa", "kochira">>}>>,
       <<{<<"imasugu">>}, {<<"click">>}>>,
       <<{<<"campaign">>, <<"present">>, <<"chusen">>}, {<<"campaign">>, <<"present">>, <<"chusen">>}>> >>

\* reservation received, confirmation number, e-ticket, ... (27 patterns)
booking_confirmation_patterns ==
    << <<{<<"yoyaku">>}, {<<"uketsuke">>}, {<<"mashita">>}>>,
       <<{<<"go", "yoyaku">>}, {<<"kakunin">>}>>,
       <<{<<"toujou", "ken">>}>>,
       <<{<<"flight">>}, {<<"kakunin">>}>>,
       <<{<<"koukuu", "ken">>}>>,
       <<{<<"kakunin", "bangou">>}>>,
       <<{<<"yoyaku", "bangou">>}>>,
       <<{<<"checkin">>}>>,
       <<{<<"e", "ticket">>}>>,
       <<{<<"zaseki">>}, {<<"shitei">>}>>,
       <<{<<"toujou">>}, {<<"tetsuzuki">>}>>,
       <<{<<"yoyaku">>}, {<<"kanryou">>}>>,
       <<{<<"go", "riyou">>}, {<<"arigatou">>}>>,
       <<{<<"ANA">>}, {<<"yoyaku">>}>>,
       <<{<<"ANA">>}, {<<"kakunin">>}>>,
       <<{<<"ANA">>}, {<<"ticket">>}>>,
       <<{<<"ANA">>}, {<<"toujou">>}>>,
       <<{<<"JAL">>}, {<<"yoyaku">>}>>,
       <<{<<"JAL">>}, {<<"kakunin">>}>>,
       <<{<<"JAL">>}, {<<"ticket">>}>>,
       <<{<<"JAL">>}, {<<"toujou">>}>>,
       <<{<<"riyou">>}, {<<"kaishi">>}>>,
       <<{<<"riyou">>}, {<<"shuuryou">>}>>,
       <<{<<"yoyaku">>}, {<<"kaishi">>}>>,
       <<{<<"henkyaku">>}, {<<"kanryou">>}>>,
       <<{<<"cancel">>}, {<<"uketsuke">>}>>,
       <<{<<"henkou">>}, {<<"uketsuke">>}>> >>

\* the ^.*X.*$ patterns (16 patterns)
non_booking_subject_patterns ==
    << <<{<<"campaign">>}>>,
       <<{<<"present">>}>>,
       <<{<<"mile">>}, {<<"campaign">>}>>,
       <<{<<"point">>}, {<<"campaign">>}>>,
       <<{<<"oshirase">>}>>,
       <<{<<"merumaga">>}>>,
       <<{<<"newsletter">>}>>,
       <<{<<"sale">>}>>,
       <<{<<"waribiki">>}>>,
       <<{<<"tokuten">>}>>,
       <<{<<"maintenance">>}>>,
       <<{<<"system">>}>>,
       <<{<<"password">>}>>,
       <<{<<"login">>}>>,
       <<{<<"account">>}>>,
       <<{<<"kaiin">>}, {<<"touroku">>}>> >>

CountMatches(patterns, text) ==
    Cardinality({i \in 1..Len(patterns) : Search(patterns[i], text)})

\* Variant: no subject is rejected.
is_likely_booking_email_accept_all(email) == TRUE

\* Variant: the confirmation patterns are tried before the non-booking ones.
is_likely_booking_email_confirmation_first(email) ==
    IF \E i \in 1..Len(booking_confirmation_patterns) :
            Search(booking_confirmation_patterns[i], email.subject)
    THEN TRUE
    ELSE ~(\E i \in 1..Len(non_booking_subject_patterns) :
              SearchAnchored(non_booking_subject_patterns[i], email.subject))

is_likely_booking_email(email) ==
    IF \E i \in 1..Len(non_booking_subject_patterns) :
            SearchAnchored(non_booking_subject_patterns[i], email.subject)
    THEN FALSE
    ELSE IF \E i \in 1..Len(booking_confirmation_patterns) :
            Search(booking_confirmation_patterns[i], email.subject)
    THEN TRUE
    ELSE TRUE

\* Variant: only the subject is searched for confirmation language.
is_booking_confirmation_subject_only(subject, body) ==
    \E i \in 1..Len(booking_confirmation_patterns) :
        Search(booking_confirmation_patterns[i], subject)

is_booking_confirmation(subject, body) ==
    IF \E i \in 1..Len(booking_confirmation_patterns) :
            Search(booking_confirmation_patterns[i], subject)
    THEN TRUE
    ELSE CountMatches(booking_confirmation_patterns, body) >= 2

\* Variant: one promotional keyword in the subject is enough.
is_promotional_email_one_keyword(email) ==
    IF is_booking_confirmation(email.subject, email.body) THEN FALSE
    ELSE \/ CountMatches(promotional_subject_patterns, email.subject) >= 1
         \/ CountMatches(promotional_body_patterns, email.body) >= 3

is_promotional_email(email) ==
    IF is_booking_confirmation(email.subject, email.body) THEN FALSE
    ELSE LET promotional_subject_matches ==
                 CountMatches(promotional_subject_patterns, email.subject)
             promotional_body_matches ==
                 CountMatches(promotional_body_patterns, email.body)
         IN  IF promotional_subject_matches >= 2 THEN TRUE
             ELSE IF promotional_subject_matches >= 1 /\ promotional_body_matches >= 2
             THEN TRUE
             ELSE IF promotional_body_matches >= 3 THEN TRUE
             ELSE FALSE

----------------------------------------------------------------------------
(* models/email_types.py, utils/config.py, models/carshare.py: senders and *)
(* domains are sequences of characters.                                    *)

Lower(ch) ==
    CASE ch = "A" -> "a" [] ch = "N" -> "n" [] ch = "J" -> "j" [] ch = "L" -> "l"
      [] OTHER -> ch

LowerAll(s) == [i \in 1..Len(s) |-> Lower(s[i])]

Positions(s, ch) == {i \in 1..Len(s) : s[i] = ch}

SetMax(S) == CHOOSE x \in S : \A y \in S : y <= x

SetMin(S) == CHOOSE x \in S : \A y \in S : x <= y

\* s.split(ch)[-1]
AfterLast(s, ch) ==
    IF Positions(s, ch) = {} THEN s ELSE SubSeq(s, SetMax(Positions(s, ch)) + 1, Len(s))

\* s.split(ch)[0]
BeforeFirst(s, ch) ==
    IF Positions(s, ch) = {} THEN s ELSE SubSeq(s, 1, SetMin(Positions(s, ch)) - 1)

\* s.strip()
Strip(s) ==
    LET keep == {i \in 1..Len(s) : s[i] # " "}
    IN  IF keep = {} THEN <<>> ELSE SubSeq(s, SetMin(keep), SetMax(keep))

\* s.endswith(suffix)
EndsWith(s, suffix) ==
    /\ Len(suffix) <= Len(s)
    /\ SubSeq(s, Len(s) - Len(suffix) + 1, Len(s)) = suffix

\* EmailMessage.domain
domain(email) ==
    IF Positions(email.sender, "@") = {} THEN <<>>
    ELSE Strip(BeforeFirst(LowerAll(AfterLast(email.sender, "@")), ">"))

flight_domains ==
    << <<"a", "n", "a", ".", "c", "o", ".", "j", "p">>,
       <<"b", "o", "o", "k", "i", "n", "g", ".", "j", "a", "l", ".", "c", "o", "m">> >>

\* get_provider_from_domain's domain_mapping, in its order.
domain_mapping ==
    << [domain |-> <<"c", "a", "r", "s", "h", "a", "r", "e", "s", ".", "j", "p">>, provider |-> "mitsui_carshares"],
       [domain |-> <<"s", "h", "a", "r", "e", ".", "t", "i", "m", "e", "s", "c", "a", "r", ".", "j", "p">>, provider |-> "times_car"] >>

\* The configured trusted forwarding addresses.
forwarded_from_email_list ==
    << <<"m", "e", "@", "f", "w", "d", ".", "j", "p">> >>

\* Variant: any domain ending in the allowed one matches.
DomainMatches_any_suffix(d, allowed) == EndsWith(d, allowed)

DomainMatches(d, allowed) == d = allowed \/ EndsWith(d, <<".">> \o allowed)

\* "" when no provider matches (None).
get_provider_from_domain(d) ==
    LET hits == {i \in 1..Len(domain_mapping) : DomainMatches(d, domain_mapping[i].domain)}
    IN  IF hits = {} THEN "" ELSE domain_mapping[SetMin(hits)].provider

----------------------------------------------------------------------------
(* How the calendar store answers during one handler.                      *)

Modes == {"ok", "reject_writes", "reject_query", "reject_all"}

QueryOk(mode) == mode \in {"ok", "reject_writes"}

WriteOk(mode) == mode \in {"ok", "reject_query"}

\* Variant: the result does not carry the extracted data.
ProcessingResult_without_data(email_id, email_type, success, extracted_data, error_message) ==
    [email_id |-> email_id, email_type |-> email_type, success |-> success,
     extracted_data |-> <<>>, error_message |-> error_message]

ProcessingResult(email_id, email_type, success, extracted_data, error_message) ==
    [email_id |-> email_id, email_type |-> email_type, success |-> success,
     extracted_data |-> extracted_data, error_message |-> error_message]

\* The extraction engine's answer for this message: <<>> (null) or <<booking>>.
EngineAnswer(email) == email.extract

----------------------------------------------------------------------------
(* processors/flight_processor.py *)

FlightCanProcess(email) ==
    \E i \in 1..Len(flight_domains) : DomainMatches(domain(email), flight_domains[i])

\* extract_data: the booking as a dict, or <<>>.
FlightExtractData(email) == EngineAnswer(email)

\* Variant: a code that finds nothing falls back to the booking reference.
FlightLookup_reference_fallback(c, booking, mode) ==
    LET by_code == find_events_by_confirmation_code(
                       c, booking.confirmation_code, QueryOk(mode))
        code_logged == Logged(c, Call("find_by_confirmation_code", 0, 0, QueryOk(mode)))
    IN  IF booking.confirmation_code # "" /\ (by_code # <<>> \/ booking.booking_reference = "")
        THEN [c |-> code_logged, existing |-> by_code]
        ELSE IF booking.booking_reference # ""
        THEN [c |-> Logged(IF booking.confirmation_code # "" THEN code_logged ELSE c,
                           Call("find_by_booking_reference", 0, 0, QueryOk(mode))),
              existing |-> find_events_by_booking_reference(
                               c, booking.booking_reference, QueryOk(mode))]
        ELSE [c |-> c, existing |-> <<>>]

\* The lookup of create_calendar_events: [c, existing].
FlightLookup(c, booking, mode) ==
    IF booking.confirmation_code # ""
    THEN [c |-> Logged(c, Call("find_by_confirmation_code", 0, 0, QueryOk(mode))),
          existing |-> find_events_by_confirmation_code(
                           c, booking.confirmation_code, QueryOk(mode))]
    ELSE IF booking.booking_reference # ""
    THEN [c |-> Logged(c, Call("find_by_booking_reference", 0, 0, QueryOk(mode))),
          existing |-> find_events_by_booking_reference(
                           c, booking.booking_reference, QueryOk(mode))]
    ELSE [c |-> c, existing |-> <<>>]

\* Variant: every paired event is updated, whether it differs or not.
RECURSIVE FlightUpdateLoop_every_pair(_, _, _, _, _)
FlightUpdateLoop_every_pair(c, existing, desired, i, ok) ==
    IF i > Len(desired) THEN c
    ELSE IF i <= Len(existing)
    THEN FlightUpdateLoop_every_pair(update_event(c, existing[i].id, desired[i], i, ok),
                                     existing, desired, i + 1, ok)
    ELSE FlightUpdateLoop_every_pair(c, existing, desired, i + 1, ok)

\* for i, new_event in enumerate(new_calendar_events): update existing[i] if needed
RECURSIVE FlightUpdateLoop(_, _, _, _, _)
FlightUpdateLoop(c, existing, desired, i, ok) ==
    IF i > Len(desired) THEN c
    ELSE IF i <= Len(existing) /\ needs_update(existing[i], desired[i])
    THEN FlightUpdateLoop(update_event(c, existing[i].id, desired[i], i, ok),
                          existing, desired, i + 1, ok)
    ELSE FlightUpdateLoop(c, existing, desired, i + 1, ok)

\* for new_event in new_calendar_events[len(existing_events):]: create_event
FlightCreateSurplus(c, existing, desired, ok) ==
    IF Len(desired) > Len(existing)
    THEN create_events(c, desired, Len(existing) + 1, ok)
    ELSE c

\* FlightEmailProcessor.create_calendar_events: [c, events, existing, desired]
FlightCreateCalendarEvents(c, booking, email, mode) ==
    LET look == FlightLookup(c, booking, mode)
        desired == create_flight_events(booking, email.id)
        done == IF look.existing # <<>>
                THEN FlightCreateSurplus(
                         FlightUpdateLoop(look.c, look.existing, desired, 1, WriteOk(mode)),
                         look.existing, desired, WriteOk(mode))
                ELSE create_events(look.c, desired, 1, WriteOk(mode))
    IN  [c |-> done, events |-> desired, existing |-> look.existing, desired |-> desired]

NoReconcile(c) == [c |-> c, events |-> <<>>, existing |-> <<>>, desired |-> <<>>]

\* FlightEmailProcessor.process: [c, result, existing, desired, engine_calls]
FlightProcess(c, email, mode) ==
    IF ~is_likely_booking_email(email)
    THEN [rec |-> NoReconcile(c), engine_calls |-> 0,
          result |-> ProcessingResult(email.id, "flight", FALSE, <<>>,
                                      "No flight information found in email")]
    ELSE IF is_promotional_email(email)
    THEN [rec |-> NoReconcile(c), engine_calls |-> 0,
          result |-> ProcessingResult(email.id, "flight", FALSE, <<>>,
                                      "Skipped promotional email")]
    ELSE LET extracted_data == FlightExtractData(email)
         IN  IF extracted_data = <<>>
             THEN [rec |-> NoReconcile(c), engine_calls |-> 1,
                   result |-> ProcessingResult(email.id, "flight", FALSE, <<>>,
                                               "No flight information found in email")]
             ELSE LET rec == FlightCreateCalendarEvents(c, extracted_data[1], email, mode)
                  IN  IF rec.events = <<>>
                      THEN [rec |-> rec, engine_calls |-> 1,
                            result |-> ProcessingResult(email.id, "flight", FALSE,
                                          extracted_data, "Failed to create calendar events")]
                      ELSE [rec |-> rec, engine_calls |-> 1,
                            result |-> ProcessingResult(email.id, "flight", TRUE,
                                          extracted_data, "")]

----------------------------------------------------------------------------
(* processors/carshare_processor.py *)

WindowHours == 2

CarshareKeywords ==
    { <<"carshare">>, <<"timescar">>, <<"rentacar">>, <<"rental", "car">>,
      <<"yoyaku", "kanryou">>, <<"riyou", "meisai">> }

CarShareCanProcess(email) ==
    \/ get_provider_from_domain(domain(email)) # ""
    \/ \E i \in 1..Len(forwarded_from_email_list) :
          /\ Contains(LowerAll(email.sender), LowerAll(forwarded_from_email_list[i]))
          /\ \E kw \in CarshareKeywords :
                Contains(email.subject \o <<" ">> \o email.body, kw)

\* extract_data: <<>> when the sender's domain names no provider.
CarShareExtractData(email) ==
    LET provider == get_provider_from_domain(domain(email))
    IN  IF provider = "" THEN <<>>
        ELSE IF EngineAnswer(email) = <<>> THEN <<>>
        ELSE << [EngineAnswer(email)[1] EXCEPT !.provider = provider] >>

CarShareEngineCalls(email) ==
    IF get_provider_from_domain(domain(email)) = "" THEN 0 ELSE 1

\* events().list(timeMin, timeMax, privateExtendedProperty="source=..."):
\* events that end after timeMin and start before timeMax.
ListWindow(c, timeMin, timeMax) ==
    SelectSeq(c.items, LAMBDA e :
        /\ e.private.source = SourceTag
        /\ FromIso(e.end).inst > timeMin.inst
        /\ FromIso(e.start).inst < timeMax.inst)

ProviderInSummary(summary) ==
    \E name \in {<<"Times", "Car">>, <<"MitsuiCarshares">>} : Contains(summary, name)

\* Variant: events that merely touch the booking count as overlapping.
find_overlapping_events_touching(c, booking, ok) ==
    IF ~ok THEN <<>>
    ELSE SelectSeq(c.items, LAMBDA e :
            /\ e.private.source = SourceTag
            /\ booking.start_time.inst <= FromIso(e.end).inst
            /\ FromIso(e.start).inst <= booking.end_time.inst
            /\ \/ Contains(e.location, booking.station.station_name)
               \/ ProviderInSummary(e.summary))

find_overlapping_events(c, booking, ok) ==
    IF ~ok THEN <<>>
    ELSE LET start_window == [booking.start_time EXCEPT !.inst = @ - WindowHours]
             end_window == [booking.end_time EXCEPT !.inst = @ + WindowHours]
             all_events == ListWindow(c, start_window, end_window)
         IN  SelectSeq(all_events, LAMBDA e :
                /\ e.private.source = SourceTag
                /\ Before(booking.start_time, FromIso(e.end))
                /\ Before(FromIso(e.start), booking.end_time)
                /\ \/ Contains(e.location, booking.station.station_name)
                   \/ ProviderInSummary(e.summary))

\* Variant: only the first overlapping event is deleted.
DeleteAll_first_only(c, events, i, ok) ==
    IF events = <<>> THEN c ELSE delete_event(c, events[1].id, ok)

\* for old_event in overlapping_events: delete_event(old_event["id"])
RECURSIVE DeleteAll(_, _, _, _)
DeleteAll(c, events, i, ok) ==
    IF i > Len(events) THEN c
    ELSE DeleteAll(delete_event(c, events[i].id, ok), events, i + 1, ok)

\* Variant: the new event is created before the old ones are deleted.
handle_overlapping_events_create_first(c, overlapping_events, new_events, ok) ==
    DeleteAll(create_events(c, new_events, 1, ok), overlapping_events, 1, ok)

\* Variant: the new event is created and the old ones are kept.
handle_overlapping_events_keep_old(c, overlapping_events, new_events, ok) ==
    create_events(c, new_events, 1, ok)

handle_overlapping_events(c, overlapping_events, new_events, ok) ==
    create_events(DeleteAll(c, overlapping_events, 1, ok), new_events, 1, ok)

\* CarShareEmailProcessor.create_calendar_events: [c, events, existing, desired]
CarShareCreateCalendarEvents(c, booking, email, mode) ==
    LET c1 == Logged(c, Call("list_window", 0, 0, QueryOk(mode)))
        overlapping_events == find_overlapping_events(c, booking, QueryOk(mode))
    IN  IF booking.status = "cancelled"
        THEN [c |-> DeleteAll(c1, overlapping_events, 1, WriteOk(mode)),
              events |-> <<>>, existing |-> overlapping_events, desired |-> <<>>]
        ELSE LET new_calendar_events == create_carshare_events(booking, email.id)
             IN  [c |-> IF overlapping_events # <<>>
                        THEN handle_overlapping_events(c1, overlapping_events,
                                                       new_calendar_events, WriteOk(mode))
                        ELSE create_events(c1, new_calendar_events, 1, WriteOk(mode)),
                  events |-> new_calendar_events,
                  existing |-> overlapping_events,
                  desired |-> new_calendar_events]

\* CarShareEmailProcessor.process
CarShareProcess(c, email, mode) ==
    IF ~is_likely_booking_email(email)
    THEN [rec |-> NoReconcile(c), engine_calls |-> 0,
          result |-> ProcessingResult(email.id, "car_share", FALSE, <<>>,
                                      "No car sharing information found in email")]
    ELSE IF is_promotional_email(email)
    THEN [rec |-> NoReconcile(c), engine_calls |-> 0,
          result |-> ProcessingResult(email.id, "car_share", FALSE, <<>>,
                                      "Skipped promotional email")]
    ELSE LET extracted_data == CarShareExtractData(email)
         IN  IF extracted_data = <<>>
             THEN [rec |-> NoReconcile(c), engine_calls |-> CarShareEngineCalls(email),
                   result |-> ProcessingResult(email.id, "car_share", FALSE, <<>>,
                                  "No car sharing information found in email")]
             ELSE LET rec == CarShareCreateCalendarEvents(c, extracted_data[1], email, mode)
                  IN  IF extracted_data[1].status = "cancelled"
                      THEN [rec |-> rec, engine_calls |-> 1,
                            result |-> ProcessingResult(email.id, "car_share", TRUE,
                                          extracted_data, "")]
                      ELSE IF rec.events = <<>>
                      THEN [rec |-> rec, engine_calls |-> 1,
                            result |-> ProcessingResult(email.id, "car_share", FALSE,
                                          extracted_data, "Failed to create calendar events")]
                      ELSE [rec |-> rec, engine_calls |-> 1,
                            result |-> ProcessingResult(email.id, "car_share", TRUE,
                                          extracted_data, "")]

----------------------------------------------------------------------------
(* The inputs: bookings and messages *)

MaxEvents == 5

HND == [code |-> "HND", name |-> <<"Haneda", "Airport">>, city |-> <<"Tokyo">>]

OKA == [code |-> "OKA", name |-> <<>>, city |-> <<>>]

ISG == [code |-> "ISG", name |-> <<"Ishigaki", "kuukou">>, city |-> <<>>]

Segment(flight_number, from, to, dep, seat) ==
    [airline |-> "ANA", flight_number |-> flight_number,
     departure_airport |-> from, arrival_airport |-> to,
     departure_time |-> At(dep), arrival_time |-> At(dep + 2),
     seat_number |-> seat]

\* First leg: seat still the placeholder, seat assigned, seat assigned and rescheduled.
FirstLegs ==
    { Segment("NH1", HND, OKA, 10, SeatPlaceholder),
      Segment("NH1", HND, OKA, 10, "14A"),
      Segment("NH1", HND, OKA, 12, "14A") }

SecondLeg == Segment("NH2", OKA, ISG, 15, SeatPlaceholder)

ReturnLegs ==
    { Segment("NH3", OKA, HND, 40, SeatPlaceholder),
      Segment("NH3", OKA, HND, 40, "15C"),
      Segment("NH3", OKA, HND, 40, "") }

OutboundChoices == {<<s>> : s \in FirstLegs} \cup {<<s, SecondLeg>> : s \in FirstLegs}

ReturnChoices == {<<>>} \cup {<<s>> : s \in ReturnLegs}

\* One booking (code ABC123, reference REF1) as its notifications report it:
\* a notification may leave out the code, the reference or both.
FlightBookings ==
    { [confirmation_code |-> cc, booking_reference |-> br,
       passenger_name |-> "TARO", outbound_segments |-> out,
       return_segments |-> ret, checkin_url |-> ""] :
         cc \in {"", "ABC123"}, br \in {"", "REF1"},
         out \in OutboundChoices, ret \in ReturnChoices }

SegmentCount(b) == Len(b.outbound_segments) + Len(b.return_segments)

ConfirmationSubject == <<"ANA", "go", "yoyaku", "kakunin">>

CampaignSubject == <<"ANA", "mile", "campaign">>

PlainBody == <<"itinerary">>

FlightSender == <<"A", "N", "A", " ", "<", "i", "n", "f", "o", "@", "a", "n", "a", ".", "c", "o", ".", "j", "p", ">">>

CarShareSender == <<"n", "o", "r", "e", "p", "l", "y", "@", "s", "h", "a", "r", "e", ".", "t", "i", "m", "e", "s", "c", "a", "r", ".", "j", "p">>

Email(id, subject, sender, received_at, extract) ==
    [id |-> id, subject |-> subject, body |-> PlainBody, sender |-> sender,
     received_at |-> received_at, extract |-> extract]

\* A subject with two promotional keywords and no obvious non-booking one.
LotterySubject == <<"chusen", "gentei">>

\* What the extraction engine would answer for a promotional flight message
\* if it were asked.
PromotedFlightBooking ==
    [passenger_name |-> "TARO", confirmation_code |-> "ABC123",
     booking_reference |-> "REF1", checkin_url |-> "",
     outbound_segments |-> <<Segment("NH1", HND, OKA, 10, "14A")>>,
     return_segments |-> <<>>]

\* The flight messages a mailbox can hold under message id id.
FlightEmails(id) ==
    {Email(id, ConfirmationSubject, FlightSender, 0, <<b>>) : b \in FlightBookings}
    \cup {Email(id, ConfirmationSubject, FlightSender, 0, <<>>)}
    \cup {Email(id, CampaignSubject, FlightSender, 0, <<>>)}
    \cup {Email(id, subject, FlightSender, 0, <<PromotedFlightBooking>>) :
              subject \in {CampaignSubject, LotterySubject}}

DesiredCount(email) == IF email.extract = <<>> THEN 0 ELSE SegmentCount(email.extract[1])

----------------------------------------------------------------------------
(* The flight processor fed one message after the other *)

NoLast == [op |-> "none"]

Handled(op, email, mode, before, out) ==
    [op |-> op, email |-> email, mode |-> mode, before |-> before,
     calls |-> out.rec.c.calls, existing |-> out.rec.existing,
     desired |-> out.rec.desired, events |-> out.rec.events,
     engine_calls |-> out.engine_calls, result |-> out.result]

Context(store) == [items |-> store.items, next |-> store.next, calls |-> <<>>]

Stored(c) == [items |-> c.items, next |-> c.next]

HistInit == [reliable |-> TRUE, identified |-> TRUE, maxseg |-> 0, bookings |-> <<>>]

HasIdentity(b) == b.confirmation_code # "" \/ b.booking_reference # ""

FlightHist(h, email, mode) ==
    [reliable |-> h.reliable /\ mode = "ok",
     identified |-> h.identified /\ (email.extract # <<>> => HasIdentity(email.extract[1])),
     maxseg |-> Max(h.maxseg, DesiredCount(email)),
     bookings |-> Append(h.bookings, email.extract)]

DriverIdle ==
    /\ inbox = {}
    /\ emails = <<>>
    /\ pos = 0
    /\ results = <<>>
    /\ trace = <<>>
    /\ exit_code = 0 - 1
    /\ verdict = {}

\* The state after one process call that gave out.
Processed(op, out, email, mode) ==
    /\ cal' = Stored(out.rec.c)
    /\ last' = Handled(op, email, mode, cal.items, out)

InitFlight ==
    /\ cal = [items |-> <<>>, next |-> 1]
    /\ pending = <<"m1", "m2">>
    /\ last = NoLast
    /\ hist = HistInit
    /\ DriverIdle

FlightStep ==
    /\ pending # <<>>
    /\ \E email \in FlightEmails(Head(pending)), mode \in Modes :
          /\ Len(cal.items) + DesiredCount(email) <= MaxEvents
          /\ Processed("flight", FlightProcess(Context(cal), email, mode), email, mode)
          /\ hist' = FlightHist(hist, email, mode)
    /\ pending' = Tail(pending)
    /\ UNCHANGED <<inbox, emails, pos, results, trace, exit_code, verdict>>

NextFlight == FlightStep

SpecFlight == InitFlight /\ [][NextFlight]_vars

----------------------------------------------------------------------------
(* The car-share processor fed one message after the other *)

Shibuya == [station_name |-> <<"Shibuya">>, station_address |-> <<>>]

ShibuyaEkimae ==
    [station_name |-> <<"Shibuya", "Ekimae">>, station_address |-> <<"Tokyo">>]

CarShareBooking(status, start, end, station) ==
    [provider |-> "times_car", status |-> status, user_name |-> "TARO",
     start_time |-> At(start), end_time |-> At(end), station |-> station,
     car_type |-> <<>>, booking_reference |-> "", confirmation_code |-> ""]

BookingStatus == {"reserved", "changed", "cancelled", "completed"}

\* Bookings at two stations over two overlapping intervals, a booking of
\* every status, a booking that starts when the first interval ends, and bookings at a station named
\* after the airport and at a station named after the provider.
CarShareBookings ==
    {CarShareBooking(status, iv[1], iv[2], station) :
        status \in {"reserved", "cancelled"},
        iv \in {<<10, 12>>, <<11, 13>>},
        station \in {Shibuya, ShibuyaEkimae}}
    \cup {CarShareBooking(status, 11, 13, Shibuya) : status \in BookingStatus}
    \cup {CarShareBooking(status, 12, 14, Shibuya) : status \in {"reserved", "cancelled"}}
    \cup {CarShareBooking(status, 10, 12,
                           [Shibuya EXCEPT !.station_name = <<"Haneda", "Airport">>]) :
              status \in {"reserved", "cancelled"}}
    \cup {CarShareBooking(status, 11, 13,
                           [Shibuya EXCEPT !.station_name = <<"Times", "Car", "Shinjuku">>]) :
              status \in {"reserved", "cancelled"}}

CarShareSubject == <<"Times", "Car", "yoyaku", "kanryou">>

\* "campaign information! a good-value plan"
PlanCampaignSubject == <<"campaign", "jouhou", "!", "otoku", "na", "plan">>

\* "limited-time campaign running! details here"
PlanCampaignBody ==
    <<"kikan", "gentei", "campaign", "jisshichuu", "!", "kuwashikuwa", "kochira">>

CarShareEmails(id) ==
    {Email(id, CarShareSubject, CarShareSender, 0, <<b>>) : b \in CarShareBookings}
    \cup {Email(id, CarShareSubject, CarShareSender, 0, <<>>)}
    \cup {[Email(id, subject, CarShareSender, 0,
                  <<CarShareBooking("reserved", 10, 12, Shibuya)>>)
              EXCEPT !.body = PlanCampaignBody] :
              subject \in {PlanCampaignSubject, LotterySubject}}

\* The store is empty, or holds the event of a flight NH1 from Haneda
\* synced from an earlier message m0.
InitCarShare ==
    /\ cal \in {[items |-> <<>>, next |-> 1],
                [items |-> <<to_google_calendar_format(
                                 create_flight_events(PromotedFlightBooking, "m0")[1], 1)>>,
                 next |-> 2]}
    /\ pending = <<"m1", "m2", "m3">>
    /\ last = NoLast
    /\ hist = HistInit
    /\ DriverIdle

\* Ghost: whether the store answered every call so far, and the station
\* names of the bookings reconciled so far, in hist.bookings.
CarShareHist(h, email, mode) ==
    [h EXCEPT
       !.reliable = @ /\ mode = "ok",
       !.bookings =
          IF /\ is_likely_booking_email(email)
             /\ ~is_promotional_email(email)
             /\ CarShareExtractData(email) # <<>>
             /\ email.extract[1].station.station_name \notin Range(@)
          THEN Append(@, email.extract[1].station.station_name)
          ELSE @]

CarShareStep ==
    /\ pending # <<>>
    /\ \E email \in CarShareEmails(Head(pending)), mode \in Modes :
          /\ Len(cal.items) + 1 <= MaxEvents
          /\ Processed("carshare", CarShareProcess(Context(cal), email, mode), email, mode)
          /\ hist' = CarShareHist(hist, email, mode)
    /\ pending' = Tail(pending)
    /\ UNCHANGED <<inbox, emails, pos, results, trace, exit_code, verdict>>

NextCarShare == CarShareStep

SpecCarShare == InitCarShare /\ [][NextCarShare]_vars

----------------------------------------------------------------------------
(* services/gmail_client.py: the mailbox is [msgs, labelled]; msgs is the  *)
(* order in which the mail service lists messages, labelled the ids that   *)
(* carry the processed label. A Date header is <<wall clock, offset>> in   *)
(* hours, or <<>> when the message has none that parses.                   *)

\* datetime.now() of the run, as local wall clock.
Now == 9

\* The UTC offset of the machine running the sync.
LocalOffset == 0

\* settings.all_supported_domains: the flight domains and the car-share domains.
all_supported_domains ==
    flight_domains \o [i \in 1..Len(domain_mapping) |-> domain_mapping[i].domain]

ForwardSubjectMarks == {<<"Fwd">>, <<"Fw">>, <<"tensou">>}

\* search_emails for "from:<address> -label:<gmail_label>", for forwarders
\* with "(subject:Fwd OR subject:Fw OR subject:...)": the matching messages.
search_emails(box, address, forwarded) ==
    SelectSeq(box.msgs, LAMBDA m :
        /\ m.id \notin box.labelled
        /\ Contains(LowerAll(m.sender), LowerAll(address))
        /\ forwarded => \E mark \in ForwardSubjectMarks : Contains(m.subject, mark))

\* email.utils.parsedate_tz + mktime_tz + datetime.fromtimestamp: the
\* header's instant as naive local time; datetime.now() without a header.
ParseDate(date) ==
    IF date = <<>> THEN Now ELSE (date[1] - date[2]) + LocalOffset

get_email(m) == Email(m.id, m.subject, m.sender, ParseDate(m.date), m.extract)

RECURSIVE Flatten(_)
Flatten(seqs) == IF seqs = <<>> THEN <<>> ELSE Head(seqs) \o Flatten(Tail(seqs))

\* Variant of the sort below: the list is left in query order.
SortByReceivedAt_unsorted(all_emails) == all_emails

\* list.sort(key=received_at): stable, ascending.
RECURSIVE SortByReceivedAt(_)
SortByReceivedAt(all_emails) ==
    IF all_emails = <<>> THEN <<>>
    ELSE LET n == Len(all_emails)
             sorted == SortByReceivedAt(SubSeq(all_emails, 1, n - 1))
             x == all_emails[n]
             keep == {i \in 1..Len(sorted) : sorted[i].received_at <= x.received_at}
             k == IF keep = {} THEN 0 ELSE SetMax(keep)
         IN  SubSeq(sorted, 1, k) \o <<x>> \o SubSeq(sorted, k + 1, Len(sorted))

get_all_supported_emails(box) ==
    LET from_domains ==
            Flatten([i \in 1..Len(all_supported_domains) |->
                        search_emails(box, all_supported_domains[i], FALSE)])
        from_forwarders ==
            Flatten([i \in 1..Len(forwarded_from_email_list) |->
                        search_emails(box, forwarded_from_email_list[i], TRUE)])
        all_emails == [i \in 1..Len(from_domains \o from_forwarders) |->
                          get_email((from_domains \o from_forwarders)[i])]
    IN  SortByReceivedAt(all_emails)

\* add_label: the message carries the label afterwards.
add_label(box, message_id) == [box EXCEPT !.labelled = @ \cup {message_id}]

----------------------------------------------------------------------------
(* processors/factory.py and main.py *)

\* Variant: the car-share processor is asked first.
get_processor_carshare_first(email) ==
    IF CarShareCanProcess(email) THEN "car_share"
    ELSE IF FlightCanProcess(email) THEN "flight"
    ELSE "none"

\* get_processor: the first processor whose can_process accepts, or "none".
get_processor(email) ==
    IF FlightCanProcess(email) THEN "flight"
    ELSE IF CarShareCanProcess(email) THEN "car_share"
    ELSE "none"

Process(kind, c, email, mode) ==
    IF kind = "flight" THEN FlightProcess(c, email, mode)
    ELSE CarShareProcess(c, email, mode)

\* What can go wrong outside the processors' own handling while one message
\* is handled: get_processor raises, process raises, add_label answers
\* False (HttpError), add_label raises.
Faults == {"none", "lookup", "process", "label_false", "label"}

\* Variant of the try block below: every result is labelled.
AfterProcess_label_all(out, box, email, fault) ==
    [raised |-> fault = "label",
     caught |-> FALSE,
     results |-> <<out.result>>,
     c |-> out.rec.c,
     box |-> IF fault \notin {"label", "label_false"}
             THEN add_label(box, email.id) ELSE box,
     label |-> IF fault = "label" THEN "raised"
               ELSE IF fault = "label_false" THEN "refused"
               ELSE "ok",
     out |-> <<out>>]

\* The try block after processor.process returned out: the result is
\* appended, and a success is labelled. label says how the call of add_label
\* ended: "none" when it was not made, "ok", "refused" (it answered False),
\* "raised".
AfterProcess(out, box, email, fault) ==
    [raised |-> out.result.success /\ fault = "label",
     caught |-> FALSE,
     results |-> <<out.result>>,
     c |-> out.rec.c,
     box |-> IF out.result.success /\ fault \notin {"label", "label_false"}
             THEN add_label(box, email.id) ELSE box,
     label |-> IF ~out.result.success THEN "none"
               ELSE IF fault = "label" THEN "raised"
               ELSE IF fault = "label_false" THEN "refused"
               ELSE "ok",
     out |-> <<out>>]

\* The try block left at once: by an exception, or by continue.
LeftEarly(c, box, raised) ==
    [raised |-> raised, caught |-> FALSE, results |-> <<>>, c |-> c, box |-> box,
     label |-> "none", out |-> <<>>]

\* The try block of the loop body for one message:
\* [raised, caught, results, c, box, label, out]; out is <<>> when process did not
\* return.
TryBlock(c, box, email, fault, mode) ==
    IF fault = "lookup" THEN LeftEarly(c, box, TRUE)
    ELSE IF get_processor(email) = "none" THEN LeftEarly(c, box, FALSE)
    ELSE IF fault = "process" THEN LeftEarly(c, box, TRUE)
    ELSE AfterProcess(Process(get_processor(email), c, email, mode), box, email, fault)

\* The except clause: the failure result appended for the message.
ExceptResult(email, fault) ==
    ProcessingResult(email.id,
                     IF fault # "lookup" /\ get_processor(email) = "car_share"
                     THEN "car_share" ELSE "flight",
                     FALSE, <<>>, "Unexpected error")

\* except Exception: an exception of the try block t is caught and turned
\* into a failure result.
ExceptClause(t, email, fault) ==
    IF t.raised
    THEN [t EXCEPT !.raised = FALSE, !.caught = TRUE,
                   !.results = Append(@, ExceptResult(email, fault))]
    ELSE t

\* Variant of the loop body below: the exception is not caught.
LoopBody_uncaught(c, box, email, fault, mode) ==
    TryBlock(c, box, email, fault, mode)

\* One iteration of the loop of process_emails: try block and except clause.
\* raised says whether an exception leaves the iteration.
LoopBody(c, box, email, fault, mode) ==
    ExceptClause(TryBlock(c, box, email, fault, mode), email, fault)

----------------------------------------------------------------------------
(* One run of process_emails over a mailbox *)

DateHeaders == {<<>>, <<10, 9>>, <<3, 0>>}

ForwarderSender == forwarded_from_email_list[1]

ForwardedSubject == <<"Fwd">> \o CarShareSubject

DriverFlightBooking ==
    [passenger_name |-> "TARO", confirmation_code |-> "ABC123",
     booking_reference |-> "", checkin_url |-> "",
     outbound_segments |-> <<Segment("NH1", HND, OKA, 10, "14A")>>,
     return_segments |-> <<>>]

\* An airline address behind the forwarder's address as display name.
ForwarderNamedFlightSender ==
    ForwarderSender \o <<" ", "<", "i", "n", "f", "o", "@", "a", "n", "a", ".", "c", "o", ".", "j", "p", ">">>

\* A forwarded subject without any car-share keyword.
ForwardedOtherSubject == <<"Fwd", "hello">>

\* kind: "flight" and "car_share" come from a supported domain, "forwarded"
\* is a car-share mail from the forwarder, "forwarded_flight" satisfies both
\* processors, "forwarded_other" satisfies none.
Message(id, kind, date) ==
    [id |-> id, date |-> date,
     sender |-> CASE kind = "flight" -> FlightSender
                  [] kind = "car_share" -> CarShareSender
                  [] kind = "forwarded_flight" -> ForwarderNamedFlightSender
                  [] OTHER -> ForwarderSender,
     subject |-> CASE kind = "flight" -> ConfirmationSubject
                   [] kind = "car_share" -> CarShareSubject
                   [] kind = "forwarded_other" -> ForwardedOtherSubject
                   [] OTHER -> ForwardedSubject,
     extract |-> CASE kind = "flight" -> <<DriverFlightBooking>>
                   [] kind = "car_share" ->
                        <<CarShareBooking("reserved", 10, 12, Shibuya)>>
                   [] kind = "forwarded_flight" -> <<DriverFlightBooking>>
                   [] kind = "forwarded_other" -> <<>>
                   [] OTHER -> <<CarShareBooking("reserved", 11, 13, Shibuya)>>]

Mailboxes ==
    {[msgs |-> <<Message("m1", k1, d1), Message("m2", k2, d2), Message("m3", k3, d3)>>,
      labelled |-> l] :
        k1 \in {"flight", "car_share"},
        k2 \in {"car_share", "forwarded", "forwarded_flight"},
        k3 \in {"flight", "forwarded", "forwarded_other"},
        d1 \in DateHeaders, d2 \in DateHeaders, d3 \in DateHeaders,
        l \in {{}, {"m1"}}}

\* pos: 0 before the fetch, then the index of the next message; -1 once an
\* exception has left process_emails.
InitDriver ==
    /\ cal = [items |-> <<>>, next |-> 1]
    /\ pending = <<>>
    /\ last = NoLast
    /\ hist = HistInit
    /\ inbox \in Mailboxes
    /\ emails = <<>>
    /\ pos = 0
    /\ results = <<>>
    /\ trace = <<>>
    /\ exit_code = 0 - 1
    /\ verdict = {}

Fetch ==
    /\ pos = 0
    /\ exit_code = 0 - 1
    /\ emails' = get_all_supported_emails(inbox)
    /\ pos' = 1
    /\ UNCHANGED <<cal, pending, last, hist, inbox, results, trace, exit_code, verdict>>

HandledBy(kind) == IF kind = "flight" THEN "flight" ELSE "carshare"

\* The state after one iteration whose loop body gave body.
Iterated(body, email) ==
    /\ cal' = Stored(body.c)
    /\ inbox' = body.box
    /\ results' = results \o body.results
    /\ pos' = IF body.raised THEN 0 - 1 ELSE pos + 1
    /\ trace' = Append(trace, [id |-> email.id,
                               received_at |-> email.received_at,
                               raised |-> body.raised \/ body.caught,
                               label |-> body.label])
    /\ last' = IF body.out = <<>> THEN NoLast
               ELSE Handled(HandledBy(body.out[1].result.email_type), email, "ok",
                            cal.items, body.out[1])

ProcessNext ==
    /\ pos \in 1..Len(emails)
    /\ \E fault \in Faults :
          Iterated(LoopBody(Context(cal), inbox, emails[pos], fault, "ok"), emails[pos])
    /\ UNCHANGED <<pending, hist, emails, exit_code, verdict>>

\* get_all_supported_emails raises (the mail service fails): main's except
\* clause logs the error and exits.
FetchFails ==
    /\ pos = 0
    /\ exit_code = 0 - 1
    /\ exit_code' = 1
    /\ UNCHANGED <<cal, pending, last, hist, inbox, emails, pos, results, trace, verdict>>

SkipMessages ==
    {"Skipped promotional email", "No flight information found in email",
     "No car sharing information found in email"}

\* main's summary: the results that are neither successes nor skips.
FailedCount(rs) ==
    Len(rs) - Len(SelectSeq(rs, LAMBDA r : r.success))
            - Len(SelectSeq(rs, LAMBDA r : ~r.success /\ r.error_message \in SkipMessages))

\* main after process_emails returned rs: sys.exit(1) when a result failed,
\* the normal end of the program otherwise.
MainExit(rs) == IF FailedCount(rs) > 0 THEN 1 ELSE 0

\* process_emails has returned: main writes the summary and ends.
Finish ==
    /\ pos = Len(emails) + 1
    /\ exit_code = 0 - 1
    /\ exit_code' = MainExit(results)
    /\ UNCHANGED <<cal, pending, last, hist, inbox, emails, pos, results, trace, verdict>>

NextDriver == Fetch \/ ProcessNext \/ FetchFails \/ Finish

SpecDriver == InitDriver /\ [][NextDriver]_vars

----------------------------------------------------------------------------
(* Successive runs of main over one mailbox and one store *)

\* How often main is started.
MaxRuns == 2

\* Two notifications of one booking at one station: the reservation, and the
\* change to an interval that overlaps the reserved one.
RerunMailboxes ==
    {[msgs |-> <<Message("m1", "car_share", d1),
                 [Message("m2", "car_share", d2)
                     EXCEPT !.extract = <<CarShareBooking("changed", 11, 13, Shibuya)>>]>>,
      labelled |-> {}] :
        d1 \in DateHeaders, d2 \in DateHeaders}

\* pending holds one entry per run of main that is still to be started.
InitRerun ==
    /\ cal = [items |-> <<>>, next |-> 1]
    /\ pending = [i \in 1..(MaxRuns - 1) |-> "run"]
    /\ last = NoLast
    /\ hist = HistInit
    /\ inbox \in RerunMailboxes
    /\ emails = <<>>
    /\ pos = 0
    /\ results = <<>>
    /\ trace = <<>>
    /\ exit_code = 0 - 1
    /\ verdict = {}

\* main is started again: the mailbox with its labels and the store are what
\* the earlier run left.
StartNextRun ==
    /\ exit_code # 0 - 1
    /\ pending # <<>>
    /\ Len(cal.items) + Len(inbox.msgs) <= MaxEvents
    /\ pending' = Tail(pending)
    /\ emails' = <<>>
    /\ pos' = 0
    /\ results' = <<>>
    /\ trace' = <<>>
    /\ exit_code' = 0 - 1
    /\ UNCHANGED <<cal, last, hist, inbox, verdict>>

NextRerun == Fetch \/ ProcessNext \/ Finish \/ StartNextRun

SpecRerun == InitRerun /\ [][NextRerun]_vars

----------------------------------------------------------------------------
(* The filters and the domain matching, applied to one message *)

\* The empty subject, a greeting, one promotional keyword that is no obvious
\* non-booking one, two of them, a campaign, a confirmation, confirmation
\* language together with campaign words, and a sale announced on the second
\* line of the subject.
FilterSubjects ==
    {<<>>, <<"hello">>, <<"gentei">>, LotterySubject,
     CampaignSubject, ConfirmationSubject,
     <<"go", "yoyaku", "kakunin", "campaign", "present">>,
     <<"hello", "NL", "sale">>}

\* "campaign information. click here for details. apply here. unsubscribe here"
NewsletterBody ==
    <<"campaign", "jouhou", "desu", "kuwashikuwa", "kochira", "wo", "click",
      "oubo", "wa", "kochira", "kara", "haishin", "teishi", "wa", "kochira">>

\* Among them "details here. unsubscribe", and the newsletter with one and
\* with two confirmation phrases.
FilterBodies ==
    {PlainBody, <<"kuwashikuwa", "kochira", "haishin", "teishi">>, NewsletterBody,
     NewsletterBody \o <<"checkin">>,
     NewsletterBody \o <<"kakunin", "bangou", "checkin">>}

FilterSenders ==
    {FlightSender, CarShareSender,
     <<"i", "n", "f", "o", "@", "c", "a", "r", "s", "h", "a", "r", "e", "s", ".", "j", "p">>,
     <<"i", "n", "f", "o", "@", "m", "a", "i", "l", ".", "c", "a", "r", "s", "h", "a", "r", "e", "s", ".", "j", "p">>,
     <<"i", "n", "f", "o", "@", "u", "n", "k", "n", "o", "w", "n", ".", "c", "o", "m">>,
     <<"i", "n", "f", "o", "@", "x", "c", "a", "r", "s", "h", "a", "r", "e", "s", ".", "j", "p">>,
     <<"I", "n", "f", "o", "@", "S", "u", "b", ".", "A", "N", "A", ".", "c", "o", ".", "j", "p">>,
     <<"i", "n", "f", "o", "@", "b", "a", "n", "a", "n", "a", ".", "c", "o", ".", "j", "p">>,
     <<"i", "n", "f", "o", "@", "b", "o", "o", "k", "i", "n", "g", ".", "j", "a", "l", ".", "c", "o", "m">>}

FilterEmails ==
    {[Email("m1", subject, sender, 0, <<>>) EXCEPT !.body = body] :
        subject \in FilterSubjects, body \in FilterBodies, sender \in FilterSenders}

Answered(fn) == \E v \in verdict : v.fn = fn

InitClassify ==
    /\ cal = [items |-> <<>>, next |-> 1]
    /\ pending = <<>>
    /\ last = NoLast
    /\ hist = HistInit
    /\ inbox = {}
    /\ emails \in {<<email>> : email \in FilterEmails}
    /\ pos = 0
    /\ results = <<>>
    /\ trace = <<>>
    /\ exit_code = 0 - 1
    /\ verdict = {}

Answers(fn, value) ==
    /\ ~Answered(fn)
    /\ verdict' = verdict \cup {[fn |-> fn, value |-> value]}
    /\ UNCHANGED <<cal, pending, last, hist, inbox, emails, pos, results, trace, exit_code>>

CheckLikely == Answers("is_likely_booking_email", is_likely_booking_email(emails[1]))

CheckPromotional == Answers("is_promotional_email", is_promotional_email(emails[1]))

ResolveProvider ==
    Answers("get_provider_from_domain", get_provider_from_domain(domain(emails[1])))

CheckFlightDomain == Answers("can_process", FlightCanProcess(emails[1]))

NextClassify == CheckLikely \/ CheckPromotional \/ ResolveProvider \/ CheckFlightDomain

SpecClassify == InitClassify /\ [][NextClassify]_vars

----------------------------------------------------------------------------
(* needs_update applied to one stored event and one new event *)

\* One segment NH1 HND->OKA as notifications report it: seat absent,
\* placeholder or assigned; departure at 10 or 11, or at 10 written with
\* offset +00:00; arrival at 13 or 14.
ReportedSegments ==
    {[Segment("NH1", HND, OKA, 10, seat) EXCEPT !.departure_time = dep,
                                                !.arrival_time = At(arr)] :
        seat \in {"", SeatPlaceholder, "14A", "15C"},
        dep \in {At(10), At(11), [inst |-> 10, off |-> 0]},
        arr \in {13, 14}}

ReportedBookings ==
    {[confirmation_code |-> "ABC123", booking_reference |-> "",
      passenger_name |-> "TARO", outbound_segments |-> <<seg>>,
      return_segments |-> <<>>, checkin_url |-> url] :
        seg \in ReportedSegments, url \in {"", "https://checkin"}}

\* The store holds the event of an earlier notification m0; the notification
\* m1 is at hand.
InitNeedsUpdate ==
    /\ \E b \in ReportedBookings :
          cal = [items |-> <<to_google_calendar_format(
                                 create_flight_events(b, "m0")[1], 1)>>,
                 next |-> 2]
    /\ pending = <<>>
    /\ last = NoLast
    /\ hist = HistInit
    /\ inbox = {}
    /\ emails \in {<<Email("m1", ConfirmationSubject, FlightSender, 0, <<b>>)>> :
                      b \in ReportedBookings}
    /\ pos = 0
    /\ results = <<>>
    /\ trace = <<>>
    /\ exit_code = 0 - 1
    /\ verdict = {}

CheckNeedsUpdate ==
    Answers("needs_update",
            needs_update(cal.items[1],
                         create_flight_events(emails[1].extract[1], emails[1].id)[1]))

NextNeedsUpdate == CheckNeedsUpdate

SpecNeedsUpdate == InitNeedsUpdate /\ [][NextNeedsUpdate]_vars

----------------------------------------------------------------------------
(* What the last handler did *)

CallsOf(op) == SelectSeq(last.calls, LAMBDA k : k.op = op)

Creates == CallsOf("create")

Updates == CallsOf("update")

Deletes == CallsOf("delete")

\* The last handler was a flight message that reached reconciliation.
FlightReconciled ==
    /\ last.op = "flight"
    /\ last.engine_calls = 1
    /\ last.email.extract # <<>>

LastBooking == last.email.extract[1]

\* The stored events that carry the identity the lookup of booking b uses.
StoredForIdentity(items, b) ==
    IF b.confirmation_code # ""
    THEN SelectSeq(items, LAMBDA e :
             Tag(e.private, "confirmation_code") = b.confirmation_code)
    ELSE IF b.booking_reference # ""
    THEN SelectSeq(items, LAMBDA e :
             Tag(e.private, "booking_reference") = b.booking_reference)
    ELSE <<>>

----------------------------------------------------------------------------
(* Claims on the flight processor *)

\* C1: with a reliable store and every notification of the booking carrying
\* its confirmation code or its booking reference, the booking never has more
\* stored events than the largest segment count any notification reported.
C1_NoSecondEventPerSegment ==
    (hist.reliable /\ hist.identified) => Len(cal.items) <= hist.maxseg

\* The same booking reconciled a second time, the first time into an empty store.
SecondReconcileOfSame ==
    /\ FlightReconciled
    /\ Len(hist.bookings) = 2
    /\ hist.reliable
    /\ hist.bookings[1] # <<>>
    /\ hist.bookings[2] = hist.bookings[1]

\* C2 as claimed: reconciling the same booking a second time issues no create
\* and no update, and the store holds one event per segment.
C2_IdempotentAnyBooking ==
    SecondReconcileOfSame =>
        /\ Creates = <<>>
        /\ Updates = <<>>
        /\ Len(cal.items) = SegmentCount(LastBooking)

\* For a booking that carries a confirmation code or a booking reference the
\* second reconcile does change nothing.
C2_IdempotentIdentified ==
    (SecondReconcileOfSame /\ HasIdentity(LastBooking)) =>
        /\ Creates = <<>>
        /\ Updates = <<>>
        /\ Len(cal.items) = SegmentCount(LastBooking)

\* Such a booking, with two segments, reconciled twice.
C2_Witness ==
    /\ SecondReconcileOfSame
    /\ HasIdentity(LastBooking)
    /\ SegmentCount(LastBooking) = 2
    /\ Len(last.existing) = 2
    /\ Len(cal.items) = 2

\* C3: a flight reconcile issues no delete, and every event stored before it
\* is still stored under the same id afterwards.
C3_FlightNeverDeletes ==
    last.op = "flight" =>
        /\ Deletes = <<>>
        /\ \A i \in 1..Len(last.before) : last.before[i].id \in ItemIds(cal.items)
        /\ Len(cal.items) >= Len(last.before)

\* The itinerary got shorter, and the remaining segment was updated in place.
C3_Witness ==
    /\ FlightReconciled
    /\ Len(last.existing) > Len(last.desired)
    /\ \E i \in 1..Len(Updates) : Updates[i].ok
    /\ Len(cal.items) = Len(last.before)

\* Every create and update call of the last handler was refused by the store.
EveryWriteRejected ==
    /\ Len(Creates) + Len(Updates) >= 1
    /\ \A i \in 1..Len(last.calls) :
          last.calls[i].op \in {"create", "update"} => ~last.calls[i].ok

\* C7: extraction succeeded and the store refused every create/update call:
\* process returns the failure "Failed to create calendar events" with the
\* extracted data attached.
C7_RejectedStoreIsFailure ==
    (FlightReconciled /\ EveryWriteRejected) =>
        /\ ~last.result.success
        /\ last.result.error_message = "Failed to create calendar events"
        /\ last.result.extracted_data = last.email.extract

\* The pairs (desired index, existing id) that need an update.
PairsNeedingUpdate ==
    {<<i, last.existing[i].id>> : i \in
        {j \in 1..Min(Len(last.existing), Len(last.desired)) :
            needs_update(last.existing[j], last.desired[j])}}

\* C9: with e >= 1 existing events and d desired ones, exactly the pairs
\* i <= min(e, d) that need an update are updated, on existing[i]'s id, and
\* exactly the desired events e+1..d are created; placeholder -> "14A" at the
\* same index is one update and no create.
C9_PairwiseUpdateThenSurplus ==
    (FlightReconciled /\ Len(last.existing) >= 1) =>
        /\ {<<Updates[k].idx, Updates[k].target>> : k \in 1..Len(Updates)}
              = PairsNeedingUpdate
        /\ Len(Updates) = Cardinality(PairsNeedingUpdate)
        /\ Len(Creates) = Max(0, Len(last.desired) - Len(last.existing))
        /\ \A k \in 1..Len(Creates) : Creates[k].idx = Len(last.existing) + k
        /\ (/\ Len(last.existing) = 1
            /\ Len(last.desired) = 1
            /\ Tag(last.existing[1].private, "seat_number") = SeatPlaceholder
            /\ last.desired[1].seat_number = "14A")
           => (Len(Updates) = 1 /\ Creates = <<>>)

\* One existing event, two desired: the pair is updated, the surplus created.
C9_Witness ==
    /\ FlightReconciled
    /\ Len(last.existing) = 1
    /\ Len(last.desired) = 2
    /\ Tag(last.existing[1].private, "seat_number") = SeatPlaceholder
    /\ last.desired[1].seat_number = "14A"
    /\ Len(Updates) = 1
    /\ Len(Creates) = 1

LastSegments == LastBooking.outbound_segments \o LastBooking.return_segments

\* C10: with no stored event for the booking's identity, one create per
\* segment, outbound segments first and then return segments, each in its
\* order, and no update; one outbound and one return segment give success,
\* the confirmation code in extracted_data and two created events.
C10_CreateAllInSegmentOrder ==
    (FlightReconciled /\ StoredForIdentity(last.before, LastBooking) = <<>>) =>
        /\ Updates = <<>>
        /\ Len(Creates) = Len(LastSegments)
        /\ \A k \in 1..Len(Creates) :
              /\ Creates[k].idx = k
              /\ last.desired[k].start_time = LastSegments[k].departure_time
              /\ last.desired[k].summary = FlightSummary(LastSegments[k])
              /\ last.desired[k].seat_number = LastSegments[k].seat_number
        /\ (Len(LastBooking.outbound_segments) = 1 /\ Len(LastBooking.return_segments) = 1)
           => /\ last.result.success
              /\ last.result.extracted_data[1].confirmation_code
                    = LastBooking.confirmation_code
              /\ Len(Creates) = 2
              /\ last.mode = "ok" =>
                    /\ Len(cal.items) = Len(last.before) + 2
                    /\ cal.items[Len(cal.items) - 1].summary
                          = FlightSummary(LastBooking.outbound_segments[1])
                    /\ cal.items[Len(cal.items)].summary
                          = FlightSummary(LastBooking.return_segments[1])

C10_Witness ==
    /\ FlightReconciled
    /\ last.before = <<>>
    /\ last.mode = "ok"
    /\ LastBooking.confirmation_code = "ABC123"
    /\ Len(LastBooking.outbound_segments) = 1
    /\ Len(LastBooking.return_segments) = 1
    /\ last.result.success
    /\ Len(cal.items) = 2

----------------------------------------------------------------------------
(* Claims on the car-share processor *)

\* The last handler was a car-share message that reached reconciliation.
CarShareReconciled ==
    /\ last.op = "carshare"
    /\ last.engine_calls = 1
    /\ last.email.extract # <<>>

\* The stored events that overlap booking b in time (not merely touch it) and
\* name its station in their location or a provider in their summary.
Matching(items, b) ==
    SelectSeq(items, LAMBDA e :
        /\ b.start_time.inst < e.end[1] - e.end[2]
        /\ e.start[1] - e.start[2] < b.end_time.inst
        /\ \/ Contains(e.location, b.station.station_name)
           \/ Contains(e.summary, <<"Times", "Car">>)
           \/ Contains(e.summary, <<"MitsuiCarshares">>))

\* One delete call per event found, on its id, in the order found.
OneDeletePerFound ==
    /\ Len(Deletes) = Len(last.existing)
    /\ \A k \in 1..Len(Deletes) : Deletes[k].target = last.existing[k].id

\* C4: a cancelled car-share booking issues exactly one delete per matching
\* overlapping event and no create, returns no event and reports success;
\* with no matching event it issues no delete and still reports success.
C4_CancelledDeletesEachMatch ==
    (CarShareReconciled /\ LastBooking.status = "cancelled") =>
        /\ QueryOk(last.mode) => last.existing = Matching(last.before, LastBooking)
        /\ OneDeletePerFound
        /\ Creates = <<>>
        /\ last.events = <<>>
        /\ last.result.success
        /\ Len(last.existing) = 2 => Len(Deletes) = 2
        /\ last.existing = <<>> => (Deletes = <<>> /\ last.result.success)

\* Two prior events match the cancelled booking and both are deleted.
C4_Witness ==
    /\ CarShareReconciled
    /\ LastBooking.status = "cancelled"
    /\ Len(last.before) = 2
    /\ Len(last.existing) = 2
    /\ Len(Deletes) = 2
    /\ cal.items = <<>>
    /\ last.result.success

\* The store calls of the last handler that write.
WriteCalls == SelectSeq(last.calls, LAMBDA k : k.op \in {"create", "update", "delete"})

\* C5: a reserved, changed or completed car-share booking with matching
\* overlapping events gets every one of them deleted and then exactly one
\* event created, every delete before the create; one prior event is one
\* delete followed by one create, none is one create and no delete.
C5_DeleteAllThenCreateOne ==
    (CarShareReconciled /\ LastBooking.status \in {"reserved", "changed", "completed"}) =>
        /\ QueryOk(last.mode) => last.existing = Matching(last.before, LastBooking)
        /\ OneDeletePerFound
        /\ Len(Creates) = 1
        /\ Updates = <<>>
        /\ Len(WriteCalls) = Len(last.existing) + 1
        /\ WriteCalls[Len(WriteCalls)].op = "create"
        /\ \A k \in 1..Len(last.existing) : WriteCalls[k].op = "delete"
        /\ Len(last.existing) = 1 =>
              (/\ Len(WriteCalls) = 2
               /\ WriteCalls[1].op = "delete"
               /\ WriteCalls[2].op = "create")
        /\ last.existing = <<>> => (Deletes = <<>> /\ Len(WriteCalls) = 1)

\* A changed booking replaces two prior events by one.
C5_Witness ==
    /\ CarShareReconciled
    /\ LastBooking.status = "changed"
    /\ last.mode = "ok"
    /\ Len(last.before) = 2
    /\ Len(last.existing) = 2
    /\ Len(Deletes) = 2
    /\ Len(cal.items) = 1
    /\ cal.items[1].id = 3

----------------------------------------------------------------------------
(* Claims on the driver *)

Fetched == pos # 0

\* The messages the queries of this run match: unlabelled, and from a
\* supported domain or forwarded by a trusted address.
Queried ==
    {m \in Range(inbox.msgs) :
        /\ m.id \notin inbox.labelled
        /\ \/ \E i \in 1..Len(all_supported_domains) :
                 Contains(LowerAll(m.sender), all_supported_domains[i])
           \/ \E i \in 1..Len(forwarded_from_email_list) :
                 /\ Contains(LowerAll(m.sender), forwarded_from_email_list[i])
                 /\ Contains(m.subject, <<"Fwd">>)}

\* C6: an exception raised while one message is handled (processor lookup,
\* processing, labelling) never ends the batch: the message gets a failed
\* result, and the loop goes on to every later message of the fetched list.
C6_ExceptionIsolated ==
    Fetched =>
        /\ pos = Len(trace) + 1
        /\ pos <= Len(emails) + 1
        /\ \A k \in 1..Len(trace) :
              /\ trace[k].id = emails[k].id
              /\ trace[k].raised =>
                    \E i \in 1..Len(results) :
                        /\ results[i].email_id = trace[k].id
                        /\ ~results[i].success
                        /\ results[i].error_message = "Unexpected error"

\* The first message failed in the lookup, the second in labelling, and the
\* third was still processed, with success.
C6_Witness ==
    /\ Len(emails) = 3
    /\ pos = 4
    /\ Len(trace) = 3
    /\ trace[1].raised
    /\ trace[2].raised
    /\ ~trace[3].raised
    /\ Len(results) = 4
    /\ ~results[1].success
    /\ results[2].success
    /\ ~results[3].success
    /\ results[4].success
    /\ results[4].email_id = emails[3].id

\* C8: the messages of one run, from all domain and forwarder queries
\* together, are processed one at a time in non-decreasing order of their
\* received timestamp.
C8_OldestFirst ==
    Fetched =>
        /\ \A i \in 1..Len(emails), j \in 1..Len(emails) :
              i < j => emails[i].received_at <= emails[j].received_at
        /\ Len(trace) <= Len(emails)
        /\ \A k \in 1..Len(trace) :
              /\ trace[k].id = emails[k].id
              /\ trace[k].received_at = emails[k].received_at
        /\ \A k \in 1..Len(trace), n \in 1..Len(trace) :
              k < n => trace[k].received_at <= trace[n].received_at
        /\ pos = 1 => {emails[i].id : i \in 1..Len(emails)} = {m.id : m \in Queried}

\* A forwarded message listed last by the queries is the oldest and is
\* processed first, before the messages of the domain queries.
C8_Witness ==
    /\ Len(emails) = 3
    /\ Len(trace) = 3
    /\ trace[1].id = "m2"
    /\ inbox.msgs[2].sender = ForwarderSender
    /\ trace[1].received_at < trace[2].received_at
    /\ trace[2].received_at < trace[3].received_at

----------------------------------------------------------------------------
(* Claims on the filters inside process *)

ProcessorRan == last.op \in {"flight", "carshare"}

NoInformationMessage ==
    IF last.op = "flight" THEN "No flight information found in email"
    ELSE "No car sharing information found in email"

\* The subject matches one of the obvious non-booking patterns.
ObviousNonBooking(subject) ==
    \E i \in 1..Len(non_booking_subject_patterns) :
        SearchAnchored(non_booking_subject_patterns[i], subject)

\* Neither subject nor body holds booking-confirmation language.
NoConfirmationLanguage(email) ==
    /\ CountMatches(booking_confirmation_patterns, email.subject) = 0
    /\ CountMatches(booking_confirmation_patterns, email.body) = 0

\* C11: process on a promotional email (the subject matches at least two
\* promotional patterns, no booking-confirmation language in subject or
\* body) returns the failure "Skipped promotional email".
C11_PromotionalIsSkipped ==
    (/\ ProcessorRan
     /\ CountMatches(promotional_subject_patterns, last.email.subject) >= 2
     /\ NoConfirmationLanguage(last.email)) =>
        /\ ~last.result.success
        /\ last.result.error_message = "Skipped promotional email"

C13_FiltersShortCircuit ==
    ProcessorRan =>
        /\ ObviousNonBooking(last.email.subject) =>
              /\ last.engine_calls = 0
              /\ last.calls = <<>>
              /\ ~last.result.success
              /\ last.result.error_message = NoInformationMessage
        /\ (~ObviousNonBooking(last.email.subject) /\ is_promotional_email(last.email)) =>
              /\ last.engine_calls = 0
              /\ last.calls = <<>>
              /\ ~last.result.success
              /\ last.result.error_message = "Skipped promotional email"
        /\ (~ObviousNonBooking(last.email.subject) /\ ~is_promotional_email(last.email)) =>
              last.engine_calls = 1
        /\ (last.engine_calls = 1 /\ last.email.extract = <<>>) =>
              (last.calls = <<>> /\ ~last.result.success)
        /\ last.calls # <<>> => last.engine_calls = 1

\* A campaign message, which both filters would reject, handled over a
\* populated store: the first filter answers and nothing else is called.
C13_Witness ==
    /\ last.op = "flight"
    /\ ObviousNonBooking(last.email.subject)
    /\ CountMatches(promotional_subject_patterns, last.email.subject) >= 2
    /\ last.email.extract # <<>>
    /\ last.before # <<>>
    /\ last.engine_calls = 0
    /\ last.calls = <<>>
    /\ last.result.error_message = "No flight information found in email"

----------------------------------------------------------------------------
(* Claims on the filter functions and the domain matching *)

AnswerOf(fn) == (CHOOSE v \in verdict : v.fn = fn).value

PromotionalSubjectMatches == CountMatches(promotional_subject_patterns, emails[1].subject)

PromotionalBodyMatches == CountMatches(promotional_body_patterns, emails[1].body)

ConfirmationInSubject ==
    \E i \in 1..Len(booking_confirmation_patterns) :
        Search(booking_confirmation_patterns[i], emails[1].subject)

ConfirmationBodyMatches == CountMatches(booking_confirmation_patterns, emails[1].body)

\* C14: if the subject matches any booking-confirmation pattern, or the body
\* matches at least two, is_promotional_email returns false however many
\* promotional patterns the subject and the body match.
C14_ConfirmationPrecedence ==
    (/\ Answered("is_promotional_email")
     /\ (ConfirmationInSubject \/ ConfirmationBodyMatches >= 2)) =>
        AnswerOf("is_promotional_email") = FALSE

\* Confirmation language only in the body, under a promotional subject and
\* a newsletter body.
C14_Witness ==
    /\ Answered("is_promotional_email")
    /\ ~ConfirmationInSubject
    /\ ConfirmationBodyMatches >= 2
    /\ PromotionalSubjectMatches >= 2
    /\ PromotionalBodyMatches >= 3
    /\ AnswerOf("is_promotional_email") = FALSE

\* C15: for an email that is not a booking confirmation, is_promotional_email
\* returns true exactly when the subject matches >= 2 promotional patterns,
\* or the subject matches >= 1 and the body >= 2, or the body matches >= 3.
C15_PromotionalThresholds ==
    (/\ Answered("is_promotional_email")
     /\ ~ConfirmationInSubject
     /\ ConfirmationBodyMatches < 2) =>
        /\ AnswerOf("is_promotional_email") =
              (\/ PromotionalSubjectMatches >= 2
               \/ (PromotionalSubjectMatches >= 1 /\ PromotionalBodyMatches >= 2)
               \/ PromotionalBodyMatches >= 3)
        /\ (PromotionalSubjectMatches >= 2 /\ ConfirmationBodyMatches = 0) =>
              AnswerOf("is_promotional_email") = TRUE

\* The empty subject over a newsletter body: promotional by the body alone.
C15_Witness ==
    /\ Answered("is_promotional_email")
    /\ emails[1].subject = <<>>
    /\ ConfirmationBodyMatches = 0
    /\ PromotionalBodyMatches >= 3
    /\ AnswerOf("is_promotional_email") = TRUE

\* C16: is_likely_booking_email returns false if and only if the subject
\* matches an obvious non-booking pattern, also when the subject matches a
\* booking-confirmation pattern as well; every other subject is likely.
C16_LikelyUnlessObviousNonBooking ==
    Answered("is_likely_booking_email") =>
        (AnswerOf("is_likely_booking_email") = FALSE
            <=> ObviousNonBooking(emails[1].subject))

\* A subject matching a non-booking and a confirmation pattern is rejected.
C16_Witness ==
    /\ Answered("is_likely_booking_email")
    /\ ObviousNonBooking(emails[1].subject)
    /\ ConfirmationInSubject
    /\ AnswerOf("is_likely_booking_email") = FALSE

\* d is allowed itself, or something followed by "." and allowed.
ExactOrDotSuffix(d, allowed) ==
    \/ d = allowed
    \/ /\ Len(d) > Len(allowed)
       /\ SubSeq(d, Len(d) - Len(allowed) + 1, Len(d)) = allowed
       /\ d[Len(d) - Len(allowed)] = "."

CarSharesJp == <<"c", "a", "r", "s", "h", "a", "r", "e", "s", ".", "j", "p">>

ShareTimescarJp ==
    <<"s", "h", "a", "r", "e", ".", "t", "i", "m", "e", "s", "c", "a", "r", ".", "j", "p">>

AnaCoJp == <<"a", "n", "a", ".", "c", "o", ".", "j", "p">>

BookingJalCom ==
    <<"b", "o", "o", "k", "i", "n", "g", ".", "j", "a", "l", ".", "c", "o", "m">>

\* C18: get_provider_from_domain(d) returns a provider if and only if d
\* equals a provider domain or ends with "." followed by it, and the flight
\* processor's can_process applies the same rule to the flight allow-list.
C18_ExactOrDotSuffix ==
    LET d == domain(emails[1])
    IN  /\ Answered("get_provider_from_domain") =>
              AnswerOf("get_provider_from_domain") =
                  (IF ExactOrDotSuffix(d, CarSharesJp) THEN "mitsui_carshares"
                   ELSE IF ExactOrDotSuffix(d, ShareTimescarJp) THEN "times_car"
                   ELSE "")
        /\ Answered("can_process") =>
              AnswerOf("can_process") =
                  (ExactOrDotSuffix(d, AnaCoJp) \/ ExactOrDotSuffix(d, BookingJalCom))

\* mail.carshares.jp resolves to Mitsui and is no flight domain.
C18_Witness ==
    /\ domain(emails[1]) = <<"m", "a", "i", "l", ".">> \o CarSharesJp
    /\ Answered("get_provider_from_domain")
    /\ AnswerOf("get_provider_from_domain") = "mitsui_carshares"
    /\ Answered("can_process")
    /\ AnswerOf("can_process") = FALSE

----------------------------------------------------------------------------
(* Claims on the choice of the processor *)

\* The loop has just gone through the message at pos, and get_processor
\* returned.
ProcessorLookedUp ==
    /\ pos \in 1..Len(emails)
    /\ pos' = pos + 1
    /\ ~trace'[Len(trace')].raised

\* C17: get_processor returns the first processor in registration order
\* (flight, then car share) whose can_process is true, and none when no
\* processor matches; for a message with no processor the driver produces no
\* result, adds no label and continues with the next message.
C17_FirstMatchingProcessor ==
    [][ProcessorLookedUp =>
          IF FlightCanProcess(emails[pos])
          THEN /\ Len(results') = Len(results) + 1
               /\ results'[Len(results')].email_type = "flight"
               /\ results'[Len(results')].email_id = emails[pos].id
               /\ last'.op = "flight"
          ELSE IF CarShareCanProcess(emails[pos])
          THEN /\ Len(results') = Len(results) + 1
               /\ results'[Len(results')].email_type = "car_share"
               /\ results'[Len(results')].email_id = emails[pos].id
               /\ last'.op = "carshare"
          ELSE /\ results' = results
               /\ inbox' = inbox
               /\ cal' = cal
               /\ last'.op = "none"]_vars

\* The run went through a message that both processors accept, which the
\* flight processor handled, and through a message that none accepts, which
\* left no result and no label, and went on after it.
C17_Witness ==
    /\ Len(trace) = Len(emails)
    /\ \E i \in 1..Len(emails) :
          /\ FlightCanProcess(emails[i])
          /\ CarShareCanProcess(emails[i])
          /\ \E r \in Range(results) :
                r.email_id = emails[i].id /\ r.email_type = "flight" /\ r.success
    /\ \E i \in 1..(Len(emails) - 1) :
          /\ ~FlightCanProcess(emails[i])
          /\ ~CarShareCanProcess(emails[i])
          /\ ~trace[i].raised
          /\ \A r \in Range(results) : r.email_id # emails[i].id
          /\ emails[i].id \notin inbox.labelled

----------------------------------------------------------------------------
(* Claims on the private tags *)

OptionalTags == {"confirmation_code", "booking_reference", "seat_number"}

\* The successful writes of the last handler.
StoredWrites ==
    {k \in 1..Len(last.calls) : last.calls[k].op \in {"create", "update"} /\ last.calls[k].ok}

\* The stored item e carries exactly the tags of the event ev.
CarriesTagsOf(e, ev) ==
    /\ "source" \in DOMAIN e.private
    /\ e.private["source"] = "gmail-calendar-sync"
    /\ "source_email_id" \in DOMAIN e.private
    /\ e.private["source_email_id"] = ev.source_email_id
    /\ \A key \in OptionalTags :
          /\ key \in DOMAIN e.private <=> ev[key] # ""
          /\ key \in DOMAIN e.private => e.private[key] = ev[key]

\* The tag query on confirmation_code = code returns the item e.
FoundByConfirmationCode(e, code) ==
    \E j \in 1..Len(find_events_by_confirmation_code(Context(cal), code, TRUE)) :
        find_events_by_confirmation_code(Context(cal), code, TRUE)[j] = e

\* C19: every event sent to the store carries the private tags
\* source = "gmail-calendar-sync" and source_email_id, and carries
\* confirmation_code, booking_reference and seat_number exactly when the
\* event has a non-empty value for them; an event stored with confirmation
\* code C is returned by the store's tag query on confirmation_code = C.
C19_TagRoundTrip ==
    /\ \A e \in Range(cal.items) :
          /\ "source" \in DOMAIN e.private
          /\ e.private["source"] = "gmail-calendar-sync"
          /\ "source_email_id" \in DOMAIN e.private
    /\ last.op = "flight" =>
          \A k \in StoredWrites :
              \E e \in Range(cal.items) :
                  /\ e.id = last.calls[k].target
                  /\ CarriesTagsOf(e, last.desired[last.calls[k].idx])
                  /\ last.desired[last.calls[k].idx].source_email_id = last.email.id
                  /\ last.desired[last.calls[k].idx].confirmation_code # "" =>
                        FoundByConfirmationCode(
                            e, last.desired[last.calls[k].idx].confirmation_code)

\* A created event with a confirmation code but neither booking reference
\* nor seat: three tags are stored, and the code query finds the event.
C19_Witness ==
    /\ last.op = "flight"
    /\ \E k \in StoredWrites :
          /\ last.calls[k].op = "create"
          /\ last.desired[last.calls[k].idx].confirmation_code = "ABC123"
          /\ last.desired[last.calls[k].idx].booking_reference = ""
          /\ last.desired[last.calls[k].idx].seat_number = ""
          /\ \E e \in Range(cal.items) :
                /\ e.id = last.calls[k].target
                /\ DOMAIN e.private = {"source", "source_email_id", "confirmation_code"}
                /\ FoundByConfirmationCode(e, "ABC123")

----------------------------------------------------------------------------
(* Claims on the exit status *)

Exited == exit_code \in {0, 1}

\* C20: main exits with status 0 on any outcome in which process_emails
\* returns normally, also when some returned results are failures, and with
\* status 1 only when an exception escapes set-up or the processing phase.
C20_ExitZeroUnlessException ==
    Exited => (IF pos = Len(emails) + 1 THEN exit_code = 0 ELSE exit_code = 1)

----------------------------------------------------------------------------
(* Claims on needs_update *)

ExistingSeat == Tag(cal.items[1].private, "seat_number")

NewSegment == emails[1].extract[1].outbound_segments[1]

Blank(seat) == seat \in {"", SeatPlaceholder}

StartStringDiffers == cal.items[1].start # IsoFormat(NewSegment.departure_time)

EndStringDiffers == cal.items[1].end # IsoFormat(NewSegment.arrival_time)

NewDescriptionLonger ==
    FlightDescription(emails[1].extract[1], NewSegment) > cal.items[1].description

\* C21: needs_update(existing, new) is true exactly when the seat number
\* changed from a placeholder or blank value to a concrete value, or the
\* start strings differ, or the end strings differ, or the new description
\* is strictly longer; in particular it is false when the seat changes
\* between two concrete values and nothing else differs.
C21_NeedsUpdateOnSeatFilledIn ==
    Answered("needs_update") =>
        AnswerOf("needs_update") =
            (\/ Blank(ExistingSeat) /\ ~Blank(NewSegment.seat_number)
             \/ StartStringDiffers
             \/ EndStringDiffers
             \/ NewDescriptionLonger)

\* C21 as amended: needs_update is true exactly when the new seat is a
\* concrete value different from the existing seat, or the start strings
\* differ, or the end strings differ, or the new description is strictly
\* longer.
C21_NeedsUpdateOnNewConcreteSeat ==
    Answered("needs_update") =>
        AnswerOf("needs_update") =
            (\/ ~Blank(NewSegment.seat_number) /\ NewSegment.seat_number # ExistingSeat
             \/ StartStringDiffers
             \/ EndStringDiffers
             \/ NewDescriptionLonger)

\* The seat moves from 14A to 15C, nothing else changes: an update is needed.
C21_Witness ==
    /\ Answered("needs_update")
    /\ ExistingSeat = "14A"
    /\ NewSegment.seat_number = "15C"
    /\ ~StartStringDiffers
    /\ ~EndStringDiffers
    /\ ~NewDescriptionLonger
    /\ AnswerOf("needs_update") = TRUE

----------------------------------------------------------------------------
(* Claims on the flight lookup *)

Lookups ==
    SelectSeq(last.calls, LAMBDA k :
        k.op \in {"find_by_confirmation_code", "find_by_booking_reference"})

\* C22: flight reconcile looks up existing events by confirmation code
\* whenever one is present (the booking reference is then never queried), by
\* booking reference only when the confirmation code is absent, and with
\* both absent it performs no lookup and creates all desired events.
C22_LookupByCodeThenReference ==
    FlightReconciled =>
        /\ LastBooking.confirmation_code # "" =>
              /\ Len(Lookups) = 1
              /\ Lookups[1].op = "find_by_confirmation_code"
              /\ last.calls[1] = Lookups[1]
        /\ (LastBooking.confirmation_code = "" /\ LastBooking.booking_reference # "") =>
              /\ Len(Lookups) = 1
              /\ Lookups[1].op = "find_by_booking_reference"
              /\ last.calls[1] = Lookups[1]
        /\ (LastBooking.confirmation_code = "" /\ LastBooking.booking_reference = "") =>
              /\ Lookups = <<>>
              /\ last.existing = <<>>
              /\ Updates = <<>>
              /\ Len(Creates) = SegmentCount(LastBooking)
              /\ Len(last.calls) = Len(Creates)

\* The booking carries code and reference, the store holds an event tagged
\* with the reference only: the code is queried, finds nothing, and the
\* reference is not queried.
C22_Witness ==
    /\ FlightReconciled
    /\ LastBooking.confirmation_code # ""
    /\ LastBooking.booking_reference # ""
    /\ \E e \in Range(last.before) :
          /\ Tag(e.private, "booking_reference") = LastBooking.booking_reference
          /\ Tag(e.private, "confirmation_code") = ""
    /\ Len(Lookups) = 1
    /\ Lookups[1].ok
    /\ last.existing = <<>>

----------------------------------------------------------------------------
(* Claims on the overlap search *)

EventStart(e) == e.start[1] - e.start[2]

EventEnd(e) == e.end[1] - e.end[2]

\* The own-sourced events of items inside the window around booking b that
\* strictly overlap b and name b's station in their location or a provider
\* in their title.
OwnOverlapping(items, b) ==
    SelectSeq(items, LAMBDA e :
        /\ Tag(e.private, "source") = "gmail-calendar-sync"
        /\ EventEnd(e) > b.start_time.inst - 2
        /\ EventStart(e) < b.end_time.inst + 2
        /\ b.start_time.inst < EventEnd(e)
        /\ b.end_time.inst > EventStart(e)
        /\ \/ Contains(e.location, b.station.station_name)
           \/ \E name \in {<<"Times", "Car">>, <<"MitsuiCarshares">>} :
                 Contains(e.summary, name))

\* C23: find_overlapping_events returns exactly the own-sourced events in
\* the queried window that strictly overlap the booking (touching endpoints
\* do not count) and whose location holds the booking's station name or whose
\* title holds a provider display name; a failed store query gives the empty
\* list.
C23_OverlapSearch ==
    CarShareReconciled =>
        /\ QueryOk(last.mode) => last.existing = OwnOverlapping(last.before, LastBooking)
        /\ ~QueryOk(last.mode) => last.existing = <<>>
        /\ \A e \in Range(last.existing) :
              /\ EventEnd(e) # LastBooking.start_time.inst
              /\ EventStart(e) # LastBooking.end_time.inst

\* The store holds an event that ends when the booking starts, and an event
\* at another station whose title names the provider: only the second is
\* found.
C23_Witness ==
    /\ CarShareReconciled
    /\ QueryOk(last.mode)
    /\ \E e \in Range(last.before) :
          /\ EventEnd(e) = LastBooking.start_time.inst
          /\ Contains(e.location, LastBooking.station.station_name)
    /\ Len(last.existing) = 1
    /\ ~Contains(last.existing[1].location, LastBooking.station.station_name)
    /\ Contains(last.existing[1].summary, <<"Times", "Car">>)

----------------------------------------------------------------------------
(* Claims on the store after car-share reconciles *)

\* The own-sourced events of the store at the booking's station that
\* strictly overlap the booking.
AtStationOverlapping(b) ==
    SelectSeq(cal.items, LAMBDA e :
        /\ Tag(e.private, "source") = "gmail-calendar-sync"
        /\ Contains(e.location, b.station.station_name)
        /\ b.start_time.inst < EventEnd(e)
        /\ b.end_time.inst > EventStart(e))

\* Every call of the store succeeded so far, and every booking reconciled so
\* far is for the same station.
OneStationReliably == hist.reliable /\ Len(hist.bookings) = 1

\* C24: after any sequence of car-share messages for one station processed
\* in order against a reliable store, after each reconcile the store holds,
\* for a non-cancelled booking, exactly one own-sourced event at that station
\* strictly overlapping the booking (the newly created one), and none for a
\* cancelled booking.
C24_OneEventPerOverlap ==
    (CarShareReconciled /\ OneStationReliably) =>
        IF LastBooking.status = "cancelled"
        THEN AtStationOverlapping(LastBooking) = <<>>
        ELSE /\ Len(AtStationOverlapping(LastBooking)) = 1
             /\ Len(Creates) = 1
             /\ AtStationOverlapping(LastBooking)[1].id = Creates[1].target
             /\ Tag(AtStationOverlapping(LastBooking)[1].private, "source_email_id")
                   = last.email.id
             /\ EventStart(AtStationOverlapping(LastBooking)[1])
                   = LastBooking.start_time.inst
             /\ EventEnd(AtStationOverlapping(LastBooking)[1])
                   = LastBooking.end_time.inst

\* Two earlier events of the station, 10-12 and 12-14, both overlapped by
\* the booking 11-13: both are gone and the new event is the only one.
C24_Witness ==
    /\ CarShareReconciled
    /\ OneStationReliably
    /\ LastBooking.status # "cancelled"
    /\ Len(last.existing) = 2
    /\ EventStart(last.existing[1]) # EventStart(last.existing[2])
    /\ Len(AtStationOverlapping(LastBooking)) = 1
    /\ \A e \in Range(cal.items) : e.id \notin {last.existing[1].id, last.existing[2].id}

----------------------------------------------------------------------------
(* Claims on the processed label *)

\* The entry of the message handled last.
LastTraced == trace[Len(trace)]

\* The processor of the message handled last returned a success result.
ProcessorSucceeded == last.op # "none" /\ last.result.success

\* The identifiers the exclude-already-labelled queries return now.
QueriedAgain == {e.id : e \in Range(get_all_supported_emails(inbox))}

----------------------------------------------------------------------------
(* Claims on cancelled car-share bookings and on what car-share
   reconciliation deletes *)

\* C26: a cancelled car-share message is reported as success only if its
\* reconciliation completed: when the overlap query or a delete of a matching
\* event fails in the store, process does not return success.
C26_CancelledSuccessOnlyIfReconciled ==
    (CarShareReconciled /\ LastBooking.status = "cancelled" /\ last.result.success) =>
        \A k \in 1..Len(last.calls) : last.calls[k].ok


\* C27: every message that CarShareEmailProcessor.can_process accepts, a
\* forwarded one accepted by its keywords included, and that passes both
\* filters leads to an extraction-engine call made with a known provider.
C27_AcceptedReachesEngine ==
    (/\ last.op = "carshare"
     /\ CarShareCanProcess(last.email)
     /\ is_likely_booking_email(last.email)
     /\ ~is_promotional_email(last.email)) =>
        /\ last.engine_calls = 1
        /\ get_provider_from_domain(domain(last.email)) # ""


\* When the message that the event carries as source_email_id was received.
ReceivedAtOf(e) ==
    get_email(CHOOSE m \in Range(inbox.msgs) :
                  m.id = Tag(e.private, "source_email_id")).received_at

\* C28: across runs, a car-share event derived from a later-received message
\* is never deleted and replaced by an event derived from an earlier-received
\* message for the same station and overlapping interval.
C28_NewerNotificationWins ==
    (CarShareReconciled /\ last.events # <<>>) =>
        \A k \in 1..Len(last.existing) :
            (/\ last.existing[k].id \notin ItemIds(cal.items)
             /\ Tag(last.existing[k].private, "source_email_id") # last.email.id)
            => ReceivedAtOf(last.existing[k]) <= last.email.received_at


\* C29: process_emails returns at most one ProcessingResult per fetched
\* message: a message never contributes both a success result and a failure
\* result to the returned list.
C29_OneResultPerMessage ==
    Fetched =>
        /\ Len(results) <= Len(trace)
        /\ \A i, j \in 1..Len(results) :
              results[i].email_id = results[j].email_id
                  => results[i].success = results[j].success


\* The event was created from a flight booking: it carries the tags only
\* flight events carry.
IsFlightEvent(e) ==
    \E key \in {"confirmation_code", "booking_reference", "seat_number"} :
        Tag(e.private, key) # ""

\* C30: car-share reconciliation deletes only events that were created from
\* car-share bookings: an own-sourced flight event that overlaps the
\* booking's interval is never deleted by a car-share message, cancelled or
\* not.
C30_FlightEventsSurviveCarShare ==
    last.op = "carshare" =>
        \A k \in 1..Len(last.before) :
            IsFlightEvent(last.before[k]) => last.before[k].id \in ItemIds(cal.items)

====
